---- MODULE Spec2Model ----
(***************************************************************************)
(* A model of the HTTP message layer and path-pattern router of the `web`  *)
(* crate: src/src/router.rs, src/src/models/http.rs, src/src/httpserver.rs *)
(*                                                                         *)
(* Strings are sequences of one-character strings, so that trimming,       *)
(* splitting and case folding are computed character by character, as the  *)
(* Rust code computes them.  A HashMap<String, String> is a function whose *)
(* domain is the set of keys; an Option is a record with a `some` flag.    *)
(***************************************************************************)
EXTENDS Integers, Sequences, FiniteSets, TLC

VARIABLES
    routes,     \* Router.routes: the entries of the HashMap, in iteration order
    binds,      \* history of the bind calls made so far (ghost)
    request,    \* the request handed to the last Router::handle call
    methodArg,  \* the `method` argument of the last Router::handle call
    responseIn, \* the response object as it was handed to the last handle call
    response,   \* that response object after the call
    ret,        \* what the last Router::handle call returned
    invoked,    \* the handler invocations made by the last handle call (ghost)
    pattern,    \* input of match_route / path_params
    target,     \* input of match_route / path_params / parse_url / query_params
    data,       \* input of parse_http_request
    out,        \* result of the last pure function applied
    op,         \* name of the last operation applied
    phase,      \* the server program: "setup", "serving", or how it ended
    conns       \* the connections accepted so far, in the order of accept

vars == <<routes, binds, request, methodArg, responseIn, response, ret, invoked,
          pattern, target, data, out, op, phase, conns>>

routerVars == <<routes, binds, request, methodArg, responseIn, response, ret, invoked>>

serverVars == <<phase, conns>>

(***************************************************************************)
(* Bounds of the model.                                                    *)
(***************************************************************************)
MaxPatLen == 2      \* patterns: every string over PatChars up to this length
MaxPathLen == 2     \* paths: every string over PathChars up to this length
MaxQueryLen == 3    \* targets: every string over QueryChars up to this length
MaxBinds == 3       \* number of bind calls in a behaviour of the router

(***************************************************************************)
(* Strings.                                                                *)
(***************************************************************************)
RECURSIVE StringsUpTo(_, _)
StringsUpTo(chars, n) ==
    IF n = 0 THEN {<<>>}
    ELSE LET shorter == StringsUpTo(chars, n - 1)
         IN  shorter \cup {Append(s, c) : s \in {t \in shorter : Len(t) = n - 1}, c \in chars}

Drop(s, n) == SubSeq(s, n + 1, Len(s))
Take(s, n) == SubSeq(s, 1, n)

\* str::find(char): index of the first occurrence, 0 when there is none
find(s, c) ==
    IF \E i \in 1..Len(s) : s[i] = c
    THEN CHOOSE i \in 1..Len(s) : s[i] = c /\ \A j \in 1..(i - 1) : s[j] # c
    ELSE 0

\* str::trim_start_matches(char) / str::trim_end_matches(char)
RECURSIVE trim_start_matches(_, _)
trim_start_matches(s, c) ==
    IF Len(s) > 0 /\ s[1] = c THEN trim_start_matches(Drop(s, 1), c) ELSE s

RECURSIVE trim_end_matches(_, _)
trim_end_matches(s, c) ==
    IF Len(s) > 0 /\ s[Len(s)] = c THEN trim_end_matches(Take(s, Len(s) - 1), c) ELSE s

\* str::trim_matches(char): strips every leading and every trailing c
trim_matches(s, c) == trim_end_matches(trim_start_matches(s, c), c)

\* str::split(char).collect(): the pieces between occurrences of c; never empty
RECURSIVE split(_, _)
split(s, c) ==
    LET i == find(s, c)
    IN  IF i = 0 THEN <<s>>
        ELSE <<Take(s, i - 1)>> \o split(Drop(s, i), c)

\* str::split_once(char): Option<(before, after)> around the first c
split_once(s, c) ==
    LET i == find(s, c)
    IN  IF i = 0 THEN [some |-> FALSE, before |-> <<>>, after |-> <<>>]
        ELSE [some |-> TRUE, before |-> Take(s, i - 1), after |-> Drop(s, i)]

starts_with(s, c) == Len(s) > 0 /\ s[1] = c
ends_with(s, c) == Len(s) > 0 /\ s[Len(s)] = c

(***************************************************************************)
(* HashMap<String, String> and Option.                                     *)
(***************************************************************************)
EmptyMap == [k \in {} |-> <<>>]

\* HashMap::insert: the value of an existing key is replaced
insert(m, k, v) == [x \in DOMAIN m \cup {k} |-> IF x = k THEN v ELSE m[x]]

None == [some |-> FALSE, val |-> EmptyMap]
Some(v) == [some |-> TRUE, val |-> v]

(***************************************************************************)
(* router.rs: match_route and parse_url.                                   *)
(***************************************************************************)
\* match_loop with a slip: a name already captured keeps its first value
RECURSIVE match_loop_first_wins(_, _, _, _)
match_loop_first_wins(pattern_parts, path_parts, i, params) ==
    IF i > Len(pattern_parts) THEN Some(params)
    ELSE LET pat == pattern_parts[i]
             p == path_parts[i]
             name == SubSeq(pat, 2, Len(pat) - 1)
         IN  IF starts_with(pat, "{") /\ ends_with(pat, "}")
             THEN match_loop_first_wins(pattern_parts, path_parts, i + 1,
                      IF name \in DOMAIN params THEN params ELSE insert(params, name, p))
             ELSE IF pat # p THEN None
             ELSE match_loop_first_wins(pattern_parts, path_parts, i + 1, params)

\* the loop of match_route over pattern_parts.iter().zip(path_parts), from
\* position i, with the params collected so far
RECURSIVE match_loop(_, _, _, _)
match_loop(pattern_parts, path_parts, i, params) ==
    IF i > Len(pattern_parts) THEN Some(params)
    ELSE LET pat == pattern_parts[i]
             p == path_parts[i]
         IN  IF starts_with(pat, "{") /\ ends_with(pat, "}")
             THEN match_loop(pattern_parts, path_parts, i + 1,
                             insert(params, SubSeq(pat, 2, Len(pat) - 1), p))
             ELSE IF pat # p THEN None
             ELSE match_loop(pattern_parts, path_parts, i + 1, params)

match_route(pat, pth) ==
    LET pattern_parts == split(trim_matches(pat, "/"), "/")
        path_parts == split(trim_matches(pth, "/"), "/")
    IN  IF Len(pattern_parts) # Len(path_parts) THEN None
        ELSE match_loop(pattern_parts, path_parts, 1, EmptyMap)

\* query_loop with a slip: a key already present keeps its first value
RECURSIVE query_loop_first_wins(_, _, _)
query_loop_first_wins(pairs, i, query_params) ==
    IF i > Len(pairs) THEN query_params
    ELSE LET kv == split_once(pairs[i], "=")
         IN  IF kv.some /\ kv.before \notin DOMAIN query_params
             THEN query_loop_first_wins(pairs, i + 1,
                                        insert(query_params, kv.before, kv.after))
             ELSE query_loop_first_wins(pairs, i + 1, query_params)

\* the loop `for pair in query.split('&')` of parse_url
RECURSIVE query_loop(_, _, _)
query_loop(pairs, i, query_params) ==
    IF i > Len(pairs) THEN query_params
    ELSE LET kv == split_once(pairs[i], "=")
         IN  IF kv.some
             THEN query_loop(pairs, i + 1, insert(query_params, kv.before, kv.after))
             ELSE query_loop(pairs, i + 1, query_params)

parse_url(url) ==
    LET pq == split_once(url, "?")
    IN  IF pq.some
        THEN <<pq.before, query_loop(split(pq.after, "&"), 1, EmptyMap)>>
        ELSE <<url, EmptyMap>>

(***************************************************************************)
(* models/http.rs: HTTPRequest::query_params, HTTPRequest::path_params and *)
(* the private match_route they use.                                       *)
(***************************************************************************)
\* query.split('&').filter_map(|pair| pair.split_once('=')...) from piece i
RECURSIVE filter_map_pairs(_, _)
filter_map_pairs(pairs, i) ==
    IF i > Len(pairs) THEN <<>>
    ELSE LET kv == split_once(pairs[i], "=")
         IN  IF kv.some
             THEN <<<<kv.before, kv.after>>>> \o filter_map_pairs(pairs, i + 1)
             ELSE filter_map_pairs(pairs, i + 1)

\* Iterator::collect::<HashMap<_, _>>(): inserts the pairs in order
RECURSIVE collect(_, _, _)
collect(kvs, i, m) ==
    IF i > Len(kvs) THEN m
    ELSE collect(kvs, i + 1, insert(m, kvs[i][1], kvs[i][2]))

query_params(url) ==
    LET pq == split_once(url, "?")
    IN  IF pq.some
        THEN collect(filter_map_pairs(split(pq.after, "&"), 1), 1, EmptyMap)
        ELSE EmptyMap

RECURSIVE http_match_loop(_, _, _, _)
http_match_loop(pattern_parts, path_parts, i, params) ==
    IF i > Len(pattern_parts) THEN Some(params)
    ELSE LET pat == pattern_parts[i]
             p == path_parts[i]
         IN  IF starts_with(pat, "{") /\ ends_with(pat, "}")
             THEN http_match_loop(pattern_parts, path_parts, i + 1,
                                  insert(params, SubSeq(pat, 2, Len(pat) - 1), p))
             ELSE IF pat # p THEN None
             ELSE http_match_loop(pattern_parts, path_parts, i + 1, params)

http_match_route(pat, pth) ==
    LET pattern_parts == split(trim_matches(pat, "/"), "/")
        path_parts == split(trim_matches(pth, "/"), "/")
    IN  IF Len(pattern_parts) # Len(path_parts) THEN None
        ELSE http_match_loop(pattern_parts, path_parts, 1, EmptyMap)

\* self.url.split('?').next().unwrap_or(&self.url): split always yields a
\* first piece, the text before the first '?'
path_params(url, pat) ==
    LET pth == split(url, "?")[1]
    IN  http_match_route(pat, pth)

(***************************************************************************)
(* Inputs of the route matcher: every short string, and the strings of the *)
(* repository's tests and of the documentation.                            *)
(***************************************************************************)
PatChars == {"/", "a", "{", "}"}
PathChars == {"/", "a", "b", "?"}

S_posts == <<"/", "p", "o", "s", "t", "s">>
S_posts_id == S_posts \o <<"/", "{", "i", "d", "}">>
S_posts_new == S_posts \o <<"/", "n", "e", "w">>
S_posts_42 == S_posts \o <<"/", "4", "2">>
S_posts_1 == S_posts \o <<"/", "1">>
S_users == <<"/", "u", "s", "e", "r", "s">>
S_root == <<"/">>
S_x == <<"/", "x">>

SamplePatterns ==
    { S_posts_id, S_posts_new, S_users, S_root, S_x,
      <<"/", "{", "i", "d", "}">>,
      <<"/", "{", "a", "}", "/", "{", "a", "}">>,
      <<"/", "{", "a", "}", "/", "{", "b", "}">>,
      <<"/", "a", "/", "{", "i", "d", "}", "/", "b">> }

SamplePaths ==
    { S_posts_42, S_posts_1, S_posts_new, S_users, S_root, S_x,
      S_posts_1 \o <<"/", "e", "x", "t", "r", "a">>,
      S_posts_42 \o <<"?", "n", "a", "m", "e", "=", "t", "e", "s", "t">>,
      <<"/", "a", "/", "b">>,
      <<"/", "a", "/", "/", "b">>,
      <<"/", "b", "/", "b">> }

Patterns == StringsUpTo(PatChars, MaxPatLen) \cup SamplePatterns
Paths == StringsUpTo(PathChars, MaxPathLen) \cup SamplePaths

(***************************************************************************)
(* SpecMatch: the route matcher applied to every pattern and path.         *)
(***************************************************************************)
RouterIdle ==
    /\ routes = <<>>
    /\ binds = <<>>
    /\ request = None
    /\ methodArg = "GET"
    /\ responseIn = None
    /\ response = None
    /\ ret = [ok |-> FALSE, err |-> <<"-">>]
    /\ invoked = <<>>
    /\ phase = "setup"
    /\ conns = <<>>

InitMatch ==
    /\ RouterIdle
    /\ pattern \in Patterns
    /\ target \in Paths
    /\ data = <<>>
    /\ out = None
    /\ op = "init"

\* a call router::match_route(pattern, target)
MatchRoute ==
    /\ out' = match_route(pattern, target)
    /\ op' = "match_route"
    /\ UNCHANGED <<routerVars, serverVars, pattern, target, data>>

\* a call request.path_params(pattern) on a request whose url is target
PathParams ==
    /\ out' = path_params(target, pattern)
    /\ op' = "path_params"
    /\ UNCHANGED <<routerVars, serverVars, pattern, target, data>>

NextMatch == MatchRoute \/ PathParams

SpecMatch == InitMatch /\ [][NextMatch]_vars

(***************************************************************************)
(* Claims about the route matcher (SpecMatch).                             *)
(***************************************************************************)
\* the segments the claims speak of: '/' stripped from both ends, split on '/'
Segments(s) == split(trim_matches(s, "/"), "/")
IsPlaceholder(seg) == starts_with(seg, "{") /\ ends_with(seg, "}")
NameOf(seg) == SubSeq(seg, 2, Len(seg) - 1)
PlaceholderPositions(pp) == {i \in 1..Len(pp) : IsPlaceholder(pp[i])}
LiteralMismatch(pp, qq) ==
    \E i \in 1..Len(pp) : ~IsPlaceholder(pp[i]) /\ pp[i] # qq[i]

\* C5, as stated: match_route is no-match when the segment counts differ or
\* a literal segment differs; otherwise the result maps exactly the names
\* of the {name} segments, each name to the path segment at the position of
\* its placeholder.
C5_AsStated ==
    op = "match_route" =>
        LET pp == Segments(pattern)
            qq == Segments(target)
        IN  IF Len(pp) # Len(qq) \/ LiteralMismatch(pp, qq)
            THEN out = None
            ELSE /\ out.some
                 /\ DOMAIN out.val = {NameOf(pp[i]) : i \in PlaceholderPositions(pp)}
                 /\ \A i \in PlaceholderPositions(pp) : out.val[NameOf(pp[i])] = qq[i]

\* C5, amended: as stated, except that a name carried by several
\* placeholders maps to the path segment at the last of their positions.
C5_MatchRoute ==
    op = "match_route" =>
        LET pp == Segments(pattern)
            qq == Segments(target)
            IsLast(i) == \A j \in PlaceholderPositions(pp) :
                             NameOf(pp[j]) = NameOf(pp[i]) => j <= i
        IN  IF Len(pp) # Len(qq) \/ LiteralMismatch(pp, qq)
            THEN out = None
            ELSE /\ out.some
                 /\ DOMAIN out.val = {NameOf(pp[i]) : i \in PlaceholderPositions(pp)}
                 /\ \A i \in PlaceholderPositions(pp) :
                        IsLast(i) => out.val[NameOf(pp[i])] = qq[i]
                 /\ (PlaceholderPositions(pp) = {} => out.val = EmptyMap /\ out # None)

\* C5 witness: a match whose pattern names one placeholder twice and whose
\* path has different segments at the two positions.
C5_Witness ==
    /\ op = "match_route"
    /\ out.some
    /\ LET pp == Segments(pattern)
           qq == Segments(target)
       IN  \E i, j \in PlaceholderPositions(pp) :
               i < j /\ NameOf(pp[i]) = NameOf(pp[j]) /\ qq[i] # qq[j]

\* C6, as stated: every value captured by match_route or path_params is a
\* non-empty string.
C6_AsStated ==
    (op \in {"match_route", "path_params"} /\ out.some) =>
        \A k \in DOMAIN out.val : out.val[k] # <<>>

(***************************************************************************)
(* SpecQuery: the query-string splitters applied to every target.          *)
(***************************************************************************)
QueryChars == {"?", "=", "&", "a", "b"}

S_test == <<"/", "t", "e", "s", "t">>
S_users_query ==
    S_users \o <<"?", "n", "a", "m", "e", "=", "b", "o", "b",
                 "&", "a", "g", "e", "=", "1", "0">>

SampleTargets ==
    { S_users_query, S_test, S_root,
      S_posts_42 \o <<"?", "n", "a", "m", "e", "=", "t", "e", "s", "t">>,
      S_x \o <<"?", "a", "=", "a", "&", "a", "=", "b">>,
      S_x \o <<"?", "a", "=", "b", "&", "b", "&", "a", "=", "a">>,
      S_x \o <<"?", "a", "=", "b", "=", "a">>,
      S_x \o <<"?", "a", "=", "a", "?", "b", "=", "b">>,
      S_x \o <<"?", "=", "a", "&", "b", "=">> }

Targets == StringsUpTo(QueryChars, MaxQueryLen) \cup SampleTargets

InitQuery ==
    /\ RouterIdle
    /\ pattern = <<>>
    /\ target \in Targets
    /\ data = <<>>
    /\ out = None
    /\ op = "init"

\* a call router::parse_url(target)
ParseUrl ==
    /\ out' = parse_url(target)
    /\ op' = "parse_url"
    /\ UNCHANGED <<routerVars, serverVars, pattern, target, data>>

\* a call request.query_params() on a request whose url is target
QueryParams ==
    /\ out' = query_params(target)
    /\ op' = "query_params"
    /\ UNCHANGED <<routerVars, serverVars, pattern, target, data>>

NextQuery == ParseUrl \/ QueryParams

SpecQuery == InitQuery /\ [][NextQuery]_vars

(***************************************************************************)
(* Claims about the query-string splitters (SpecQuery).                    *)
(***************************************************************************)
HasChar(s, c) == \E i \in 1..Len(s) : s[i] = c
\* the text before / after the first occurrence of c in a string holding c
Before(s, c) == Take(s, find(s, c) - 1)
After(s, c) == Drop(s, find(s, c))

\* the mapping C7 describes for a target
QueryMapping(t) ==
    IF ~HasChar(t, "?") THEN EmptyMap
    ELSE LET pieces == split(After(t, "?"), "&")
             Pairs == {i \in 1..Len(pieces) : HasChar(pieces[i], "=")}
             Last(k) == CHOOSE i \in Pairs :
                            /\ Before(pieces[i], "=") = k
                            /\ \A j \in Pairs : Before(pieces[j], "=") = k => j <= i
         IN  [k \in {Before(pieces[i], "=") : i \in Pairs} |-> After(pieces[Last(k)], "=")]

\* C7: parse_url's query mapping and query_params are both the mapping built
\* from the text after the first '?': pieces between '&', each split at its
\* first '=', pieces without '=' dropped, the last occurrence of a key kept;
\* parse_url's path is the text before the first '?', or the whole target.
C7_QueryMapping ==
    /\ op = "parse_url" =>
          /\ out[2] = QueryMapping(target)
          /\ out[2] = query_params(target)
          /\ out[1] = IF HasChar(target, "?") THEN Before(target, "?") ELSE target
    /\ op = "query_params" =>
          /\ out = QueryMapping(target)
          /\ out = parse_url(target)[2]

\* C7 witness: a target whose query repeats a key with different values and
\* holds a piece without '='.
C7_Witness ==
    /\ op = "parse_url"
    /\ HasChar(target, "?")
    /\ LET pieces == split(After(target, "?"), "&")
       IN  /\ \E i \in 1..Len(pieces) : ~HasChar(pieces[i], "=")
           /\ \E i, j \in 1..Len(pieces) :
                  /\ i < j
                  /\ HasChar(pieces[i], "=") /\ HasChar(pieces[j], "=")
                  /\ Before(pieces[i], "=") = Before(pieces[j], "=")
                  /\ After(pieces[i], "=") # After(pieces[j], "=")
                  /\ out[2][Before(pieces[j], "=")] = After(pieces[j], "=")

(***************************************************************************)
(* models/http.rs: HTTPRequest and HTTPResponse values.                    *)
(***************************************************************************)
S_hello_world == <<"h", "e", "l", "l", "o", " ", "w", "o", "r", "l", "d">>
S_Post == <<"P", "o", "s", "t", " ">>
S_id == <<"i", "d">>
S_Route_not_found ==
    <<"R", "o", "u", "t", "e", " ", "n", "o", "t", " ", "f", "o", "u", "n", "d">>

HTTPResponse_default ==
    [status |-> "Ok", headers |-> EmptyMap, body |-> Some(S_hello_world)]

HTTPResponse_error(status, message) ==
    [status |-> status, headers |-> EmptyMap, body |-> Some(message)]

\* a request built field by field, as test_router_with_params builds it
HTTPRequest(method, url) ==
    [method |-> method, url |-> url, version |-> "HTTP1_1",
     headers |-> EmptyMap, body |-> None]

(***************************************************************************)
(* router.rs: Router.                                                      *)
(*                                                                         *)
(* routes is the HashMap's content in the order its iterator yields it.    *)
(* That order is decided by the hash of the keys under the map's random    *)
(* seed: a new key may land at any position; rebinding a key replaces the  *)
(* value in its slot.  A handler is identified by the number of the bind   *)
(* call that registered it.                                                *)
(***************************************************************************)
RouterMethods == {"GET", "POST"}
RouterPatterns == {S_posts_id, S_posts_new}
RouterTargets ==
    { S_posts_42, S_posts_new, S_x, S_root,
      S_posts_42 \o <<"?", "n", "a", "m", "e", "=", "t", "e", "s", "t">> }
\* the route bound by main.rs
S_slash_test == <<"/", "t", "e", "s", "t">>
ResponsesIn ==
    { HTTPResponse_default, HTTPResponse_error("NotFound", <<"x">>) }

Ok == [ok |-> TRUE, err |-> <<>>]
Err(e) == [ok |-> FALSE, err |-> e]
NotCalled == [ok |-> FALSE, err |-> <<"-">>]

InsertAt(seq, i, e) == Take(seq, i - 1) \o <<e>> \o Drop(seq, i - 1)

KeyIndex(rs, method, pat) ==
    IF \E i \in 1..Len(rs) : rs[i].method = method /\ rs[i].pattern = pat
    THEN CHOOSE i \in 1..Len(rs) : rs[i].method = method /\ rs[i].pattern = pat
    ELSE 0

\* request.path_params(pat) for the requests and patterns of the router
\* model, computed once
PathParamsOf ==
    [url \in RouterTargets \cup {S_slash_test},
     pat \in RouterPatterns \cup RouterTargets \cup {S_slash_test} |->
        path_params(url, pat)]

\* the closure bound in test_router_with_params, made total: it derives the
\* path parameters from the pattern it is given and writes "Post " + id
Handler(h, req, res, pat) ==
    LET path_parameters == PathParamsOf[req.url, pat]
        id == IF path_parameters.some /\ S_id \in DOMAIN path_parameters.val
              THEN path_parameters.val[S_id] ELSE <<>>
    IN  [response |-> [res EXCEPT !.body = Some(S_Post \o id)],
         call |-> [handler |-> h, pattern |-> pat, params |-> path_parameters]]

\* handle_loop with a slip: entries are filtered by the request's own method
RECURSIVE handle_loop_by_request_method(_, _, _, _, _, _)
handle_loop_by_request_method(rs, i, method, req, res, calls) ==
    IF i > Len(rs)
    THEN [ret |-> Err(S_Route_not_found), response |-> res, invoked |-> calls]
    ELSE IF rs[i].method = req.method /\ PathParamsOf[req.url, rs[i].pattern].some
    THEN LET done == Handler(rs[i].handler, req, res, rs[i].pattern)
         IN  [ret |-> Ok, response |-> done.response,
              invoked |-> Append(calls, done.call)]
    ELSE handle_loop_by_request_method(rs, i + 1, method, req, res, calls)

\* handle_loop with a slip: the handler is given the request's target in
\* place of the matched pattern
RECURSIVE handle_loop_passes_url(_, _, _, _, _, _)
handle_loop_passes_url(rs, i, method, req, res, calls) ==
    IF i > Len(rs)
    THEN [ret |-> Err(S_Route_not_found), response |-> res, invoked |-> calls]
    ELSE IF rs[i].method = method /\ PathParamsOf[req.url, rs[i].pattern].some
    THEN LET done == Handler(rs[i].handler, req, res, req.url)
         IN  [ret |-> Ok, response |-> done.response,
              invoked |-> Append(calls, done.call)]
    ELSE handle_loop_passes_url(rs, i + 1, method, req, res, calls)

\* the loop of Router::handle from entry i on, with the handler calls made
\* so far: the first entry of the dispatched method whose pattern matches
\* has its handler called, and the loop returns
RECURSIVE handle_loop(_, _, _, _, _, _)
handle_loop(rs, i, method, req, res, calls) ==
    IF i > Len(rs)
    THEN [ret |-> Err(S_Route_not_found), response |-> res, invoked |-> calls]
    ELSE IF rs[i].method = method /\ PathParamsOf[req.url, rs[i].pattern].some
    THEN LET done == Handler(rs[i].handler, req, res, rs[i].pattern)
         IN  [ret |-> Ok, response |-> done.response,
              invoked |-> Append(calls, done.call)]
    ELSE handle_loop(rs, i + 1, method, req, res, calls)

InitRouter ==
    /\ RouterIdle
    /\ pattern = <<>>
    /\ target = <<>>
    /\ data = <<>>
    /\ out = None
    /\ op = "new"

\* Router::bind with a slip: a key already bound keeps its first handler
Bind_keeps_first(method, pat) ==
    /\ Len(binds) < MaxBinds
    /\ LET h == Len(binds) + 1
           i == KeyIndex(routes, method, pat)
           entry == [method |-> method, pattern |-> pat, handler |-> h]
       IN  /\ IF i # 0
              THEN routes' = routes
              ELSE \E j \in 1..(Len(routes) + 1) : routes' = InsertAt(routes, j, entry)
           /\ binds' = Append(binds, entry)
    /\ request' = None
    /\ methodArg' = method
    /\ responseIn' = None
    /\ response' = None
    /\ ret' = NotCalled
    /\ invoked' = <<>>
    /\ op' = "bind"
    /\ UNCHANGED <<serverVars, pattern, target, data, out>>

\* Router::bind((method, pat), handler)
Bind(method, pat) ==
    /\ Len(binds) < MaxBinds
    /\ LET h == Len(binds) + 1
           i == KeyIndex(routes, method, pat)
           entry == [method |-> method, pattern |-> pat, handler |-> h]
       IN  /\ IF i # 0
              THEN routes' = [routes EXCEPT ![i] = entry]
              ELSE \E j \in 1..(Len(routes) + 1) : routes' = InsertAt(routes, j, entry)
           /\ binds' = Append(binds, entry)
    /\ request' = None
    /\ methodArg' = method
    /\ responseIn' = None
    /\ response' = None
    /\ ret' = NotCalled
    /\ invoked' = <<>>
    /\ op' = "bind"
    /\ UNCHANGED <<serverVars, pattern, target, data, out>>

\* Router::handle(method, &req, &mut res)
Handle(method, req, res) ==
    /\ LET r == handle_loop(routes, 1, method, req, res, <<>>)
       IN  /\ ret' = r.ret
           /\ response' = r.response
           /\ invoked' = r.invoked
    /\ request' = req
    /\ methodArg' = method
    /\ responseIn' = res
    /\ op' = "handle"
    /\ UNCHANGED <<routes, binds, serverVars, pattern, target, data, out>>

NextRouter ==
    \/ \E method \in RouterMethods, pat \in RouterPatterns : Bind(method, pat)
    \/ \E method \in RouterMethods, reqMethod \in RouterMethods,
          url \in RouterTargets, res \in ResponsesIn :
           Handle(method, HTTPRequest(reqMethod, url), res)

Spec == InitRouter /\ [][NextRouter]_vars

(***************************************************************************)
(* Claims about the dispatch table (Spec).                                 *)
(***************************************************************************)
\* the path portion of a target: the text up to the first '?'
PathPortion(url) == IF HasChar(url, "?") THEN Before(url, "?") ELSE url

\* the entries of a table that the dispatch (method, url) matches
Matching(rs, method, url) ==
    {i \in 1..Len(rs) :
        rs[i].method = method /\ match_route(rs[i].pattern, PathPortion(url)).some}

\* C1: handle returns Ok exactly when an entry of the dispatched method has
\* a pattern matching the request's path portion; otherwise it returns the
\* "Route not found" error, calls no handler and leaves the response as it
\* was handed in.
C1_HandleOkIffMatch ==
    op = "handle" =>
        /\ ret = Ok <=> Matching(routes, methodArg, request.url) # {}
        /\ ret # Ok =>
              /\ ret = Err(S_Route_not_found)
              /\ invoked = <<>>
              /\ response = responseIn

\* C1 witness: a dispatch that fails although the table holds an entry whose
\* pattern matches the path, under another method.
C1_Witness ==
    /\ op = "handle"
    /\ ret = Err(S_Route_not_found)
    /\ \E i \in 1..Len(routes) :
           /\ routes[i].method # methodArg
           /\ match_route(routes[i].pattern, PathPortion(request.url)).some
    /\ response = responseIn
    /\ response # HTTPResponse_default

\* C2: a successful dispatch calls exactly one handler, once; the pattern it
\* passes is the pattern of that handler's entry and matches the request's
\* path, so path_params(pattern) in the handler is Some of the captured
\* segments; the handler of "/posts/{id}" writes "Post 42" for /posts/42,
\* with or without a query string.
C2_OneHandlerWithItsPattern ==
    (op = "handle" /\ ret = Ok) =>
        /\ Len(invoked) = 1
        /\ \E i \in 1..Len(routes) :
               /\ routes[i].handler = invoked[1].handler
               /\ routes[i].pattern = invoked[1].pattern
               /\ routes[i].method = methodArg
        /\ invoked[1].params.some
        /\ invoked[1].params = match_route(invoked[1].pattern, PathPortion(request.url))
        /\ (invoked[1].pattern = S_posts_id /\ PathPortion(request.url) = S_posts_42) =>
               response.body = Some(<<"P", "o", "s", "t", " ", "4", "2">>)

\* C2 witness: GET /posts/42?name=test dispatched to the handler of
\* "/posts/{id}", which wrote "Post 42".
C2_Witness ==
    /\ op = "handle"
    /\ ret = Ok
    /\ HasChar(request.url, "?")
    /\ invoked[1].pattern = S_posts_id
    /\ invoked[1].params.val = [k \in {S_id} |-> <<"4", "2">>]
    /\ response.body = Some(<<"P", "o", "s", "t", " ", "4", "2">>)

\* the number of the bind call that first registered the key of an entry
RegisteredAt(e) ==
    CHOOSE n \in 1..Len(binds) :
        /\ binds[n].method = e.method /\ binds[n].pattern = e.pattern
        /\ \A k \in 1..(n - 1) :
               ~(binds[k].method = e.method /\ binds[k].pattern = e.pattern)

\* C3, as stated: when several patterns of the method match the path, the
\* handler called is the one of the entry registered first.
C3_AsStated ==
    (op = "handle" /\ ret = Ok) =>
        \E i \in Matching(routes, methodArg, request.url) :
            /\ routes[i].handler = invoked[1].handler
            /\ \A j \in Matching(routes, methodArg, request.url) :
                   RegisteredAt(routes[i]) <= RegisteredAt(routes[j])

\* the key of a bind call or of an entry
KeyOf(e) == <<e.method, e.pattern>>
\* the handler bound by the latest bind call of a key
LatestHandler(key) ==
    LET last == CHOOSE n \in 1..Len(binds) :
                    /\ KeyOf(binds[n]) = key
                    /\ \A k \in (n + 1)..Len(binds) : KeyOf(binds[k]) # key
    IN  binds[last].handler

\* C4: after any bind calls the table holds exactly one entry for each key
\* ever bound, with the handler of the latest bind of that key, and a
\* dispatch never calls a handler that a later bind replaced.
C4_LastWriteWins ==
    /\ {KeyOf(routes[i]) : i \in 1..Len(routes)} = {KeyOf(binds[n]) : n \in 1..Len(binds)}
    /\ \A i, j \in 1..Len(routes) : KeyOf(routes[i]) = KeyOf(routes[j]) => i = j
    /\ \A i \in 1..Len(routes) : routes[i].handler = LatestHandler(KeyOf(routes[i]))
    /\ op = "bind" => routes[KeyIndex(routes, methodArg, binds[Len(binds)].pattern)].handler = Len(binds)
    /\ op = "handle" =>
           \A c \in 1..Len(invoked) :
               \A n \in (invoked[c].handler + 1)..Len(binds) :
                   KeyOf(binds[n]) # KeyOf(binds[invoked[c].handler])

\* C4 witness: a dispatch served by the second handler bound to a key, the
\* first one having been replaced.
C4_Witness ==
    /\ op = "handle"
    /\ ret = Ok
    /\ \E n \in 1..Len(binds) :
           /\ n < invoked[1].handler
           /\ KeyOf(binds[n]) = KeyOf(binds[invoked[1].handler])

(***************************************************************************)
(* models/http.rs: HTTPMethod, HTTPVersion and HTTPHeaderType parsing.     *)
(***************************************************************************)
UpperLetters ==
    <<"A", "B", "C", "D", "E", "F", "G", "H", "I", "J", "K", "L", "M",
      "N", "O", "P", "Q", "R", "S", "T", "U", "V", "W", "X", "Y", "Z">>
LowerLetters ==
    <<"a", "b", "c", "d", "e", "f", "g", "h", "i", "j", "k", "l", "m",
      "n", "o", "p", "q", "r", "s", "t", "u", "v", "w", "x", "y", "z">>
LetterIndex(letters, c) ==
    IF \E i \in 1..Len(letters) : letters[i] = c
    THEN CHOOSE i \in 1..Len(letters) : letters[i] = c
    ELSE 0

\* str::to_uppercase and str::to_ascii_lowercase, on ASCII text
to_uppercase(s) ==
    [i \in 1..Len(s) |->
        IF LetterIndex(LowerLetters, s[i]) # 0
        THEN UpperLetters[LetterIndex(LowerLetters, s[i])] ELSE s[i]]
to_ascii_lowercase(s) ==
    [i \in 1..Len(s) |->
        IF LetterIndex(UpperLetters, s[i]) # 0
        THEN LowerLetters[LetterIndex(UpperLetters, s[i])] ELSE s[i]]

\* the ASCII characters with the White_Space property that the model writes
WhiteSpace == {" ", "\t", "\n", "\r", "\f"}

RECURSIVE trim_start(_)
trim_start(s) ==
    IF Len(s) > 0 /\ s[1] \in WhiteSpace THEN trim_start(Drop(s, 1)) ELSE s
RECURSIVE trim_end(_)
trim_end(s) ==
    IF Len(s) > 0 /\ s[Len(s)] \in WhiteSpace THEN trim_end(Take(s, Len(s) - 1)) ELSE s
trim(s) == trim_end(trim_start(s))

\* a Result: Ok(value) or Err(message)
ResultOk(v) == [ok |-> TRUE, val |-> v]
ResultErr(e) == [ok |-> FALSE, val |-> e]

S_GET == <<"G", "E", "T">>
S_POST == <<"P", "O", "S", "T">>
S_PATCH == <<"P", "A", "T", "C", "H">>
S_DELETE == <<"D", "E", "L", "E", "T", "E">>
S_HTTP1_1 == <<"H", "T", "T", "P", "/", "1", ".", "1">>
S_HTTP2 == <<"H", "T", "T", "P", "/", "2">>
S_HTTP3 == <<"H", "T", "T", "P", "/", "3">>

HTTPMethod_from_str(s) ==
    LET u == to_uppercase(s)
    IN  IF u = S_GET THEN ResultOk("GET")
        ELSE IF u = S_POST THEN ResultOk("POST")
        ELSE IF u = S_PATCH THEN ResultOk("PATCH")
        ELSE IF u = S_DELETE THEN ResultOk("DELETE")
        ELSE ResultErr("Invalid HTTP method")

HTTPVersion_from_str(s) ==
    LET u == trim(to_uppercase(s))
    IN  IF u = S_HTTP1_1 THEN ResultOk("HTTP1_1")
        ELSE IF u = S_HTTP2 THEN ResultOk("HTTP2")
        ELSE IF u = S_HTTP3 THEN ResultOk("HTTP3")
        ELSE ResultErr("Invalid HTTP version")

\* the arms of HTTPHeaderType::from_str: lower-case name => variant
KnownHeaders ==
    {
      [name |-> <<"a", "c", "c", "e", "p", "t">>,
       variant |-> "Accept"],
      [name |-> <<"a", "c", "c", "e", "p", "t", "-", "c", "h", "a", "r", "s", "e", "t">>,
       variant |-> "AcceptCharset"],
      [name |-> <<"a", "c", "c", "e", "p", "t", "-", "e", "n", "c", "o", "d", "i", "n", "g">>,
       variant |-> "AcceptEncoding"],
      [name |-> <<"a", "c", "c", "e", "p", "t", "-", "l", "a", "n", "g", "u", "a", "g", "e">>,
       variant |-> "AcceptLanguage"],
      [name |-> <<"a", "u", "t", "h", "o", "r", "i", "z", "a", "t", "i", "o", "n">>,
       variant |-> "Authorization"],
      [name |-> <<"p", "r", "o", "x", "y", "-", "a", "u", "t", "h", "o", "r", "i", "z", "a", "t", "i", "o", "n">>,
       variant |-> "ProxyAuthorization"],
      [name |-> <<"u", "s", "e", "r", "-", "a", "g", "e", "n", "t">>,
       variant |-> "UserAgent"],
      [name |-> <<"r", "e", "f", "e", "r", "e", "r">>,
       variant |-> "Referer"],
      [name |-> <<"o", "r", "i", "g", "i", "n">>,
       variant |-> "Origin"],
      [name |-> <<"h", "o", "s", "t">>,
       variant |-> "Host"],
      [name |-> <<"c", "o", "n", "t", "e", "n", "t", "-", "t", "y", "p", "e">>,
       variant |-> "ContentType"],
      [name |-> <<"c", "o", "n", "t", "e", "n", "t", "-", "l", "e", "n", "g", "t", "h">>,
       variant |-> "ContentLength"],
      [name |-> <<"c", "o", "n", "t", "e", "n", "t", "-", "e", "n", "c", "o", "d", "i", "n", "g">>,
       variant |-> "ContentEncoding"],
      [name |-> <<"c", "o", "n", "t", "e", "n", "t", "-", "l", "a", "n", "g", "u", "a", "g", "e">>,
       variant |-> "ContentLanguage"],
      [name |-> <<"c", "o", "n", "t", "e", "n", "t", "-", "l", "o", "c", "a", "t", "i", "o", "n">>,
       variant |-> "ContentLocation"],
      [name |-> <<"c", "o", "n", "t", "e", "n", "t", "-", "d", "i", "s", "p", "o", "s", "i", "t", "i", "o", "n">>,
       variant |-> "ContentDisposition"],
      [name |-> <<"c", "o", "n", "t", "e", "n", "t", "-", "r", "a", "n", "g", "e">>,
       variant |-> "ContentRange"],
      [name |-> <<"c", "a", "c", "h", "e", "-", "c", "o", "n", "t", "r", "o", "l">>,
       variant |-> "CacheControl"],
      [name |-> <<"p", "r", "a", "g", "m", "a">>,
       variant |-> "Pragma"],
      [name |-> <<"e", "x", "p", "i", "r", "e", "s">>,
       variant |-> "Expires"],
      [name |-> <<"e", "t", "a", "g">>,
       variant |-> "ETag"],
      [name |-> <<"i", "f", "-", "m", "a", "t", "c", "h">>,
       variant |-> "IfMatch"],
      [name |-> <<"i", "f", "-", "n", "o", "n", "e", "-", "m", "a", "t", "c", "h">>,
       variant |-> "IfNoneMatch"],
      [name |-> <<"i", "f", "-", "m", "o", "d", "i", "f", "i", "e", "d", "-", "s", "i", "n", "c", "e">>,
       variant |-> "IfModifiedSince"],
      [name |-> <<"i", "f", "-", "u", "n", "m", "o", "d", "i", "f", "i", "e", "d", "-", "s", "i", "n", "c", "e">>,
       variant |-> "IfUnmodifiedSince"],
      [name |-> <<"i", "f", "-", "r", "a", "n", "g", "e">>,
       variant |-> "IfRange"],
      [name |-> <<"l", "a", "s", "t", "-", "m", "o", "d", "i", "f", "i", "e", "d">>,
       variant |-> "LastModified"],
      [name |-> <<"a", "g", "e">>,
       variant |-> "Age"],
      [name |-> <<"v", "a", "r", "y">>,
       variant |-> "Vary"],
      [name |-> <<"c", "o", "n", "n", "e", "c", "t", "i", "o", "n">>,
       variant |-> "Connection"],
      [name |-> <<"k", "e", "e", "p", "-", "a", "l", "i", "v", "e">>,
       variant |-> "KeepAlive"],
      [name |-> <<"t", "r", "a", "n", "s", "f", "e", "r", "-", "e", "n", "c", "o", "d", "i", "n", "g">>,
       variant |-> "TransferEncoding"],
      [name |-> <<"u", "p", "g", "r", "a", "d", "e">>,
       variant |-> "Upgrade"],
      [name |-> <<"v", "i", "a">>,
       variant |-> "Via"],
      [name |-> <<"c", "o", "o", "k", "i", "e">>,
       variant |-> "Cookie"],
      [name |-> <<"s", "e", "t", "-", "c", "o", "o", "k", "i", "e">>,
       variant |-> "SetCookie"],
      [name |-> <<"l", "o", "c", "a", "t", "i", "o", "n">>,
       variant |-> "Location"],
      [name |-> <<"r", "a", "n", "g", "e">>,
       variant |-> "Range"],
      [name |-> <<"a", "c", "c", "e", "p", "t", "-", "r", "a", "n", "g", "e", "s">>,
       variant |-> "AcceptRanges"],
      [name |-> <<"w", "w", "w", "-", "a", "u", "t", "h", "e", "n", "t", "i", "c", "a", "t", "e">>,
       variant |-> "WWWAuthenticate"],
      [name |-> <<"p", "r", "o", "x", "y", "-", "a", "u", "t", "h", "e", "n", "t", "i", "c", "a", "t", "e">>,
       variant |-> "ProxyAuthenticate"],
      [name |-> <<"s", "t", "r", "i", "c", "t", "-", "t", "r", "a", "n", "s", "p", "o", "r", "t", "-", "s", "e", "c", "u", "r", "i", "t", "y">>,
       variant |-> "StrictTransportSecurity"],
      [name |-> <<"c", "o", "n", "t", "e", "n", "t", "-", "s", "e", "c", "u", "r", "i", "t", "y", "-", "p", "o", "l", "i", "c", "y">>,
       variant |-> "ContentSecurityPolicy"],
      [name |-> <<"c", "o", "n", "t", "e", "n", "t", "-", "s", "e", "c", "u", "r", "i", "t", "y", "-", "p", "o", "l", "i", "c", "y", "-", "r", "e", "p", "o", "r", "t", "-", "o", "n", "l", "y">>,
       variant |-> "ContentSecurityPolicyReportOnly"],
      [name |-> <<"x", "-", "c", "o", "n", "t", "e", "n", "t", "-", "t", "y", "p", "e", "-", "o", "p", "t", "i", "o", "n", "s">>,
       variant |-> "XContentTypeOptions"],
      [name |-> <<"x", "-", "f", "r", "a", "m", "e", "-", "o", "p", "t", "i", "o", "n", "s">>,
       variant |-> "XFrameOptions"],
      [name |-> <<"x", "-", "x", "s", "s", "-", "p", "r", "o", "t", "e", "c", "t", "i", "o", "n">>,
       variant |-> "XXSSProtection"],
      [name |-> <<"r", "e", "f", "e", "r", "r", "e", "r", "-", "p", "o", "l", "i", "c", "y">>,
       variant |-> "ReferrerPolicy"],
      [name |-> <<"p", "e", "r", "m", "i", "s", "s", "i", "o", "n", "s", "-", "p", "o", "l", "i", "c", "y">>,
       variant |-> "PermissionsPolicy"],
      [name |-> <<"e", "x", "p", "e", "c", "t", "-", "c", "t">>,
       variant |-> "ExpectCT"],
      [name |-> <<"a", "c", "c", "e", "s", "s", "-", "c", "o", "n", "t", "r", "o", "l", "-", "a", "l", "l", "o", "w", "-", "o", "r", "i", "g", "i", "n">>,
       variant |-> "AccessControlAllowOrigin"],
      [name |-> <<"a", "c", "c", "e", "s", "s", "-", "c", "o", "n", "t", "r", "o", "l", "-", "a", "l", "l", "o", "w", "-", "m", "e", "t", "h", "o", "d", "s">>,
       variant |-> "AccessControlAllowMethods"],
      [name |-> <<"a", "c", "c", "e", "s", "s", "-", "c", "o", "n", "t", "r", "o", "l", "-", "a", "l", "l", "o", "w", "-", "h", "e", "a", "d", "e", "r", "s">>,
       variant |-> "AccessControlAllowHeaders"],
      [name |-> <<"a", "c", "c", "e", "s", "s", "-", "c", "o", "n", "t", "r", "o", "l", "-", "a", "l", "l", "o", "w", "-", "c", "r", "e", "d", "e", "n", "t", "i", "a", "l", "s">>,
       variant |-> "AccessControlAllowCredentials"],
      [name |-> <<"a", "c", "c", "e", "s", "s", "-", "c", "o", "n", "t", "r", "o", "l", "-", "e", "x", "p", "o", "s", "e", "-", "h", "e", "a", "d", "e", "r", "s">>,
       variant |-> "AccessControlExposeHeaders"],
      [name |-> <<"a", "c", "c", "e", "s", "s", "-", "c", "o", "n", "t", "r", "o", "l", "-", "m", "a", "x", "-", "a", "g", "e">>,
       variant |-> "AccessControlMaxAge"],
      [name |-> <<"a", "c", "c", "e", "s", "s", "-", "c", "o", "n", "t", "r", "o", "l", "-", "r", "e", "q", "u", "e", "s", "t", "-", "m", "e", "t", "h", "o", "d">>,
       variant |-> "AccessControlRequestMethod"],
      [name |-> <<"a", "c", "c", "e", "s", "s", "-", "c", "o", "n", "t", "r", "o", "l", "-", "r", "e", "q", "u", "e", "s", "t", "-", "h", "e", "a", "d", "e", "r", "s">>,
       variant |-> "AccessControlRequestHeaders"],
      [name |-> <<"s", "e", "c", "-", "f", "e", "t", "c", "h", "-", "s", "i", "t", "e">>,
       variant |-> "SecFetchSite"],
      [name |-> <<"s", "e", "c", "-", "f", "e", "t", "c", "h", "-", "m", "o", "d", "e">>,
       variant |-> "SecFetchMode"],
      [name |-> <<"s", "e", "c", "-", "f", "e", "t", "c", "h", "-", "d", "e", "s", "t">>,
       variant |-> "SecFetchDest"],
      [name |-> <<"s", "e", "c", "-", "f", "e", "t", "c", "h", "-", "u", "s", "e", "r">>,
       variant |-> "SecFetchUser"],
      [name |-> <<"s", "e", "c", "-", "c", "h", "-", "u", "a">>,
       variant |-> "SecCHUA"],
      [name |-> <<"s", "e", "c", "-", "c", "h", "-", "u", "a", "-", "m", "o", "b", "i", "l", "e">>,
       variant |-> "SecCHUAMobile"],
      [name |-> <<"s", "e", "c", "-", "c", "h", "-", "u", "a", "-", "p", "l", "a", "t", "f", "o", "r", "m">>,
       variant |-> "SecCHUAPlatform"],
      [name |-> <<"a", "c", "c", "e", "p", "t", "-", "c", "h">>,
       variant |-> "AcceptCH"],
      [name |-> <<"s", "e", "r", "v", "e", "r">>,
       variant |-> "Server"],
      [name |-> <<"d", "a", "t", "e">>,
       variant |-> "Date"],
      [name |-> <<"a", "l", "l", "o", "w">>,
       variant |-> "Allow"],
      [name |-> <<"r", "e", "t", "r", "y", "-", "a", "f", "t", "e", "r">>,
       variant |-> "RetryAfter"],
      [name |-> <<"w", "a", "r", "n", "i", "n", "g">>,
       variant |-> "Warning"],
      [name |-> <<"t", "e">>,
       variant |-> "TE"],
      [name |-> <<"s", "e", "c", "-", "w", "e", "b", "s", "o", "c", "k", "e", "t", "-", "k", "e", "y">>,
       variant |-> "SecWebSocketKey"],
      [name |-> <<"s", "e", "c", "-", "w", "e", "b", "s", "o", "c", "k", "e", "t", "-", "a", "c", "c", "e", "p", "t">>,
       variant |-> "SecWebSocketAccept"],
      [name |-> <<"s", "e", "c", "-", "w", "e", "b", "s", "o", "c", "k", "e", "t", "-", "v", "e", "r", "s", "i", "o", "n">>,
       variant |-> "SecWebSocketVersion"],
      [name |-> <<"s", "e", "c", "-", "w", "e", "b", "s", "o", "c", "k", "e", "t", "-", "p", "r", "o", "t", "o", "c", "o", "l">>,
       variant |-> "SecWebSocketProtocol"],
      [name |-> <<"f", "o", "r", "w", "a", "r", "d", "e", "d">>,
       variant |-> "Forwarded"],
      [name |-> <<"x", "-", "f", "o", "r", "w", "a", "r", "d", "e", "d", "-", "f", "o", "r">>,
       variant |-> "XForwardedFor"],
      [name |-> <<"x", "-", "f", "o", "r", "w", "a", "r", "d", "e", "d", "-", "h", "o", "s", "t">>,
       variant |-> "XForwardedHost"],
      [name |-> <<"x", "-", "f", "o", "r", "w", "a", "r", "d", "e", "d", "-", "p", "r", "o", "t", "o">>,
       variant |-> "XForwardedProto"],
      [name |-> <<"x", "-", "r", "e", "a", "l", "-", "i", "p">>,
       variant |-> "XRealIP"],
      [name |-> <<"e", "x", "p", "e", "c", "t">>,
       variant |-> "Expect"],
      [name |-> <<"d", "n", "t">>,
       variant |-> "DNT"] }

\* HTTPHeaderType::from_str with a slip: the name is matched as written
HTTPHeaderType_from_str_exact(s) ==
    IF \E h \in KnownHeaders : h.name = s
    THEN [variant |-> (CHOOSE h \in KnownHeaders : h.name = s).variant, raw |-> <<>>]
    ELSE [variant |-> "Other", raw |-> s]

\* HTTPHeaderType::from_str: never an Err; an unknown name is Other(s)
HTTPHeaderType_from_str(s) ==
    LET l == to_ascii_lowercase(s)
    IN  IF \E h \in KnownHeaders : h.name = l
        THEN [variant |-> (CHOOSE h \in KnownHeaders : h.name = l).variant, raw |-> <<>>]
        ELSE [variant |-> "Other", raw |-> s]

(***************************************************************************)
(* models/http.rs: parse_http_request.                                     *)
(*                                                                         *)
(* The function returns an HTTPRequest, not a Result: each unwrap() of an  *)
(* Err and each index past the end of `head` is a panic, which the model   *)
(* reports as an outcome of kind "panic".                                  *)
(***************************************************************************)
Parsed(req) == [kind |-> "request", request |-> req, panic |-> ""]
Panic(message) == [kind |-> "panic", request |-> None, panic |-> message]

\* BufRead::read_line: the text up to and including the next '\n', or all
\* that is left
read_line(buff) ==
    LET i == find(buff, "\n")
    IN  IF i = 0 THEN [line |-> buff, rest |-> <<>>]
        ELSE [line |-> Take(buff, i), rest |-> Drop(buff, i)]

\* header_loop with a slip: the value is stored without value.trim()
RECURSIVE header_loop_untrimmed(_, _)
header_loop_untrimmed(buff, headers) ==
    LET r == read_line(buff)
        bytes_read == Len(r.line)
    IN  IF bytes_read = 0 \/ trim(r.line) = <<>>
        THEN [headers |-> headers, rest |-> r.rest]
        ELSE LET kv == split_once(trim_end(r.line), ":")
             IN  IF kv.some
                 THEN header_loop_untrimmed(r.rest,
                          insert(headers, HTTPHeaderType_from_str(kv.before), kv.after))
                 ELSE header_loop_untrimmed(r.rest, headers)

\* the `loop` over the header lines: the headers read and the text left
RECURSIVE header_loop(_, _)
header_loop(buff, headers) ==
    LET r == read_line(buff)
        bytes_read == Len(r.line)
    IN  IF bytes_read = 0 \/ trim(r.line) = <<>>
        THEN [headers |-> headers, rest |-> r.rest]
        ELSE LET kv == split_once(trim_end(r.line), ":")
             IN  IF kv.some
                 THEN header_loop(r.rest,
                          insert(headers, HTTPHeaderType_from_str(kv.before), trim(kv.after)))
                 ELSE header_loop(r.rest, headers)

\* parse_http_request with a slip: the body is kept when it is empty
parse_http_request_empty_body(input) ==
    LET first == read_line(input)
        head == split(trim_end(first.line), " ")
        method == HTTPMethod_from_str(head[1])
    IN  IF ~method.ok THEN Panic(method.val)
        ELSE IF Len(head) < 2 THEN Panic("index out of bounds")
        ELSE IF Len(head) < 3 THEN Panic("index out of bounds")
        ELSE LET version == HTTPVersion_from_str(head[3])
             IN  IF ~version.ok THEN Panic(version.val)
                 ELSE LET h == header_loop(first.rest, EmptyMap)
                          body == h.rest
                      IN  Parsed([method |-> method.val,
                                  url |-> head[2],
                                  version |-> version.val,
                                  headers |-> h.headers,
                                  body |-> Some(body)])

\* parse_http_request: a panic, or the request read from the text
parse_http_request(input) ==
    LET first == read_line(input)
        head == split(trim_end(first.line), " ")
        method == HTTPMethod_from_str(head[1])
    IN  IF ~method.ok THEN Panic(method.val)
        ELSE IF Len(head) < 2 THEN Panic("index out of bounds")
        ELSE IF Len(head) < 3 THEN Panic("index out of bounds")
        ELSE LET version == HTTPVersion_from_str(head[3])
             IN  IF ~version.ok THEN Panic(version.val)
                 ELSE LET h == header_loop(first.rest, EmptyMap)
                          body == h.rest
                      IN  Parsed([method |-> method.val,
                                  url |-> head[2],
                                  version |-> version.val,
                                  headers |-> h.headers,
                                  body |-> IF body = <<>> THEN None ELSE Some(body)])

\* HTTPRequest::new
HTTPRequest_new(input) == parse_http_request(input)

(***************************************************************************)
(* SpecParse: the parser applied to request texts.                         *)
(***************************************************************************)
MaxTokens == 3      \* request lines: up to this many tokens joined by spaces

CRLF == <<"\r", "\n">>
S_Host == <<"H", "o", "s", "t">>
S_localhost == <<"l", "o", "c", "a", "l", "h", "o", "s", "t">>
S_BODY == <<"B", "O", "D", "Y">>
S_path_query == <<"/", "p", "a", "t", "h", "?", "q", "u", "e", "r", "y">>
S_posts_123_query ==
    S_posts \o <<"/", "1", "2", "3", "?", "n", "a", "m", "e", "=", "t", "e", "s", "t">>

\* requests of the shape "METHOD target HTTP/1.1\r\nHeader: v\r\n\r\nBODY"
WellFormed(method, url, header, v, body) ==
    method \o <<" ">> \o url \o <<" ">> \o S_HTTP1_1 \o CRLF
        \o header \o <<":", " ">> \o v \o CRLF \o CRLF \o body

WFMethods == {S_GET, S_POST, S_PATCH, S_DELETE}
WFTargets == {S_path_query, S_x, S_posts_123_query}
WFHeaders == {S_Host, <<"h", "o", "s", "t">>, <<"X", "-", "T", "r", "a", "c", "e">>}
WFValues == {<<"v">>, S_localhost, <<"a", ":", "b">>, <<" ", "v", "\t">>, <<"a", " ", "b">>}
WFBodies == {S_BODY, <<"a", "\r", "\n", "\r", "\n", "b">>, <<" ">>}

WellFormedInputs ==
    {WellFormed(m, t, h, v, b) :
        m \in WFMethods, t \in WFTargets, h \in WFHeaders, v \in WFValues, b \in WFBodies}

\* request lines of up to MaxTokens tokens, well-formed or not
Tokens ==
    {S_GET, <<"g", "e", "t">>, <<"F", "O", "O">>, <<>>, S_x,
     S_HTTP1_1, <<"h", "t", "t", "p", "/", "2">>, <<"H", "T", "T", "P", "/", "9">>}

RECURSIVE TokenLines(_)
TokenLines(n) ==
    IF n = 0 THEN {}
    ELSE IF n = 1 THEN Tokens
    ELSE LET shorter == TokenLines(n - 1)
         IN  shorter \cup {l \o <<" ">> \o t : l \in shorter, t \in Tokens}

Tails ==
    {<<>>, CRLF, <<"\n">>,
     CRLF \o S_Host \o <<":", " ">> \o S_localhost \o CRLF \o CRLF,
     CRLF \o S_Host \o <<":">> \o S_localhost \o CRLF \o <<"n", "o", "c", "o", "l", "o", "n">>
          \o CRLF \o S_Host \o <<":", "b">> \o CRLF \o CRLF \o S_BODY,
     CRLF \o S_Host \o <<":", " ">> \o S_localhost}

\* requests with several header lines, blank lines of several kinds and
\* bodies of several kinds after the request line "GET /x HTTP/1.1"
S_X_Trace == <<"X", "-", "T", "r", "a", "c", "e">>
S_x_trace == <<"x", "-", "t", "r", "a", "c", "e">>
HeaderLine(name, v) == name \o <<":", " ">> \o v \o CRLF

HeaderBlocks ==
    { HeaderLine(S_X_Trace, <<"1">>) \o HeaderLine(S_x_trace, <<"2">>) \o CRLF,
      HeaderLine(S_Host, <<"a">>) \o HeaderLine(<<"H", "O", "S", "T">>, <<"b">>) \o CRLF,
      HeaderLine(S_Host, <<"a">>) \o HeaderLine(<<"h", "o", "s", "t">>, <<"b">>)
          \o HeaderLine(S_Host, <<"c">>) \o CRLF \o S_BODY,
      HeaderLine(S_X_Trace, <<"1">>) \o HeaderLine(S_X_Trace, <<"2">>) \o CRLF \o S_BODY,
      HeaderLine(S_Host, <<"a">>) \o CRLF,
      HeaderLine(S_Host, <<"a">>),
      HeaderLine(S_Host, <<"a">>) \o <<" ">>,
      HeaderLine(S_Host, <<"a">>) \o CRLF \o CRLF \o S_BODY,
      <<" ", "\t">> \o CRLF \o HeaderLine(S_Host, <<"a">>) \o CRLF \o S_BODY,
      CRLF \o <<" ">> \o CRLF,
      <<"\n">> \o S_BODY \o CRLF \o CRLF \o S_BODY }

HeaderInputs ==
    {S_GET \o <<" ">> \o S_x \o <<" ">> \o S_HTTP1_1 \o CRLF \o b : b \in HeaderBlocks}

ParseInputs ==
    {<<>>} \cup WellFormedInputs \cup HeaderInputs
        \cup {l \o t : l \in TokenLines(MaxTokens), t \in Tails}

InitParse ==
    /\ RouterIdle
    /\ pattern = <<>>
    /\ target = <<>>
    /\ data \in ParseInputs
    /\ out = None
    /\ op = "init"

\* a call HTTPRequest::new(data)
Parse ==
    /\ out' = HTTPRequest_new(data)
    /\ op' = "parse"
    /\ UNCHANGED <<routerVars, serverVars, pattern, target, data>>

NextParse == Parse

SpecParse == InitParse /\ [][NextParse]_vars

(***************************************************************************)
(* Claims about the parser (SpecParse).                                    *)
(***************************************************************************)
\* C8: a request "METHOD target HTTP/1.1\r\nHeader: v\r\n\r\nBODY" parses to
\* method METHOD, the target as one string, version HTTP/1.1, a header
\* mapping holding Header with v trimmed, and the body BODY.
C8_WellFormedParses ==
    op = "parse" =>
        \A m \in WFMethods, t \in WFTargets, h \in WFHeaders, v \in WFValues, b \in WFBodies :
            data = WellFormed(m, t, h, v, b) =>
                /\ out.kind = "request"
                /\ HTTPMethod_from_str(m) = ResultOk(out.request.method)
                /\ out.request.method \in {"GET", "POST", "PATCH", "DELETE"}
                /\ out.request.url = t
                /\ out.request.version = "HTTP1_1"
                /\ HTTPHeaderType_from_str(h) \in DOMAIN out.request.headers
                /\ out.request.headers[HTTPHeaderType_from_str(h)] = trim(v)
                /\ out.request.body = Some(b)

\* C8 witness: a parsed POST whose target has a query, whose header value
\* had surrounding whitespace and whose body holds a blank line.
C8_Witness ==
    /\ op = "parse"
    /\ data = WellFormed(S_POST, S_posts_123_query, S_Host, <<" ", "v", "\t">>,
                         <<"a", "\r", "\n", "\r", "\n", "b">>)
    /\ out.kind = "request"
    /\ out.request.method = "POST"
    /\ out.request.url = S_posts_123_query
    /\ out.request.headers = [k \in {[variant |-> "Host", raw |-> <<>>]} |-> <<"v">>]
    /\ out.request.body = Some(<<"a", "\r", "\n", "\r", "\n", "b">>)

\* the tokens of the request line: the first line, split on single spaces
RequestLineTokens(input) == split(trim_end(read_line(input).line), " ")

\* an error value of the parser, as the claims describe it
ParseError(e) == [kind |-> "error", request |-> None, panic |-> "", error |-> e]

\* C9, as stated: a request line of fewer than three tokens, the empty
\* input included, makes parsing return the MalformedRequestLine error
\* value; the parsing unit does not crash and no request is produced.
C9_AsStated ==
    (op = "parse" /\ Len(RequestLineTokens(data)) < 3) =>
        out = ParseError("MalformedRequestLine")

\* C10, as stated, for request lines that have their three tokens and a
\* supported version: a method token that is not one of GET, POST, PATCH,
\* DELETE makes parsing fail on the method, and no request is produced.
C10_AsStated ==
    (/\ op = "parse"
     /\ Len(RequestLineTokens(data)) >= 3
     /\ HTTPVersion_from_str(RequestLineTokens(data)[3]).ok
     /\ RequestLineTokens(data)[1] \notin {S_GET, S_POST, S_PATCH, S_DELETE}) =>
        /\ out.kind # "request"
        /\ out = ParseError("UnsupportedMethod") \/ out = Panic("Invalid HTTP method")

\* the lines of a text from line i on, each with its line terminator
RECURSIVE LinesOf(_)
LinesOf(text) ==
    IF text = <<>> THEN <<>>
    ELSE IF ~HasChar(text, "\n") THEN <<text>>
    ELSE <<Before(text, "\n") \o <<"\n">>>> \o LinesOf(After(text, "\n"))

IsBlank(line) == \A i \in 1..Len(line) : line[i] \in WhiteSpace

\* the header lines of a request text: the lines after the request line and
\* before the first blank line
HeaderLinesOf(text) ==
    LET lines == LinesOf(text)
        Blank == {i \in 2..Len(lines) : IsBlank(lines[i])}
        last == IF Blank = {} THEN Len(lines)
                ELSE (CHOOSE i \in Blank : \A j \in Blank : i <= j) - 1
    IN  SubSeq(lines, 2, last)

\* C11, as stated: in a parsed request, header lines whose names differ
\* only in letter case share one entry of the header mapping, and the entry
\* holds the value of the later line.
C11_AsStated ==
    (op = "parse" /\ out.kind = "request") =>
        LET lines == HeaderLinesOf(data)
            Named == {i \in 1..Len(lines) : HasChar(lines[i], ":")}
            Name(i) == Before(lines[i], ":")
            Value(i) == trim(After(lines[i], ":"))
        IN  \A i, j \in Named :
                (i < j /\ to_ascii_lowercase(Name(i)) = to_ascii_lowercase(Name(j))) =>
                    /\ HTTPHeaderType_from_str(Name(i)) = HTTPHeaderType_from_str(Name(j))
                    /\ (\A k \in Named : to_ascii_lowercase(Name(k)) =
                                             to_ascii_lowercase(Name(j)) => k <= j)
                           => out.request.headers[HTTPHeaderType_from_str(Name(i))] = Value(j)

(***************************************************************************)
(* models/http.rs: Display for HTTPHeaderType.                             *)
(***************************************************************************)
\* the arms of Display for HTTPHeaderType: variant => canonical name
HeaderDisplayNames ==
    {
      [variant |-> "Accept",
       name |-> <<"A", "c", "c", "e", "p", "t">>],
      [variant |-> "AcceptCharset",
       name |-> <<"A", "c", "c", "e", "p", "t", "-", "C", "h", "a", "r", "s", "e", "t">>],
      [variant |-> "AcceptEncoding",
       name |-> <<"A", "c", "c", "e", "p", "t", "-", "E", "n", "c", "o", "d", "i", "n", "g">>],
      [variant |-> "AcceptLanguage",
       name |-> <<"A", "c", "c", "e", "p", "t", "-", "L", "a", "n", "g", "u", "a", "g", "e">>],
      [variant |-> "Authorization",
       name |-> <<"A", "u", "t", "h", "o", "r", "i", "z", "a", "t", "i", "o", "n">>],
      [variant |-> "ProxyAuthorization",
       name |-> <<"P", "r", "o", "x", "y", "-", "A", "u", "t", "h", "o", "r", "i", "z", "a", "t", "i", "o", "n">>],
      [variant |-> "UserAgent",
       name |-> <<"U", "s", "e", "r", "-", "A", "g", "e", "n", "t">>],
      [variant |-> "Referer",
       name |-> <<"R", "e", "f", "e", "r", "e", "r">>],
      [variant |-> "Origin",
       name |-> <<"O", "r", "i", "g", "i", "n">>],
      [variant |-> "Host",
       name |-> <<"H", "o", "s", "t">>],
      [variant |-> "ContentType",
       name |-> <<"C", "o", "n", "t", "e", "n", "t", "-", "T", "y", "p", "e">>],
      [variant |-> "ContentLength",
       name |-> <<"C", "o", "n", "t", "e", "n", "t", "-", "L", "e", "n", "g", "t", "h">>],
      [variant |-> "ContentEncoding",
       name |-> <<"C", "o", "n", "t", "e", "n", "t", "-", "E", "n", "c", "o", "d", "i", "n", "g">>],
      [variant |-> "ContentLanguage",
       name |-> <<"C", "o", "n", "t", "e", "n", "t", "-", "L", "a", "n", "g", "u", "a", "g", "e">>],
      [variant |-> "ContentLocation",
       name |-> <<"C", "o", "n", "t", "e", "n", "t", "-", "L", "o", "c", "a", "t", "i", "o", "n">>],
      [variant |-> "ContentDisposition",
       name |-> <<"C", "o", "n", "t", "e", "n", "t", "-", "D", "i", "s", "p", "o", "s", "i", "t", "i", "o", "n">>],
      [variant |-> "ContentRange",
       name |-> <<"C", "o", "n", "t", "e", "n", "t", "-", "R", "a", "n", "g", "e">>],
      [variant |-> "CacheControl",
       name |-> <<"C", "a", "c", "h", "e", "-", "C", "o", "n", "t", "r", "o", "l">>],
      [variant |-> "Pragma",
       name |-> <<"P", "r", "a", "g", "m", "a">>],
      [variant |-> "Expires",
       name |-> <<"E", "x", "p", "i", "r", "e", "s">>],
      [variant |-> "ETag",
       name |-> <<"E", "T", "a", "g">>],
      [variant |-> "IfMatch",
       name |-> <<"I", "f", "-", "M", "a", "t", "c", "h">>],
      [variant |-> "IfNoneMatch",
       name |-> <<"I", "f", "-", "N", "o", "n", "e", "-", "M", "a", "t", "c", "h">>],
      [variant |-> "IfModifiedSince",
       name |-> <<"I", "f", "-", "M", "o", "d", "i", "f", "i", "e", "d", "-", "S", "i", "n", "c", "e">>],
      [variant |-> "IfUnmodifiedSince",
       name |-> <<"I", "f", "-", "U", "n", "m", "o", "d", "i", "f", "i", "e", "d", "-", "S", "i", "n", "c", "e">>],
      [variant |-> "IfRange",
       name |-> <<"I", "f", "-", "R", "a", "n", "g", "e">>],
      [variant |-> "LastModified",
       name |-> <<"L", "a", "s", "t", "-", "M", "o", "d", "i", "f", "i", "e", "d">>],
      [variant |-> "Age",
       name |-> <<"A", "g", "e">>],
      [variant |-> "Vary",
       name |-> <<"V", "a", "r", "y">>],
      [variant |-> "Connection",
       name |-> <<"C", "o", "n", "n", "e", "c", "t", "i", "o", "n">>],
      [variant |-> "KeepAlive",
       name |-> <<"K", "e", "e", "p", "-", "A", "l", "i", "v", "e">>],
      [variant |-> "TransferEncoding",
       name |-> <<"T", "r", "a", "n", "s", "f", "e", "r", "-", "E", "n", "c", "o", "d", "i", "n", "g">>],
      [variant |-> "Upgrade",
       name |-> <<"U", "p", "g", "r", "a", "d", "e">>],
      [variant |-> "Via",
       name |-> <<"V", "i", "a">>],
      [variant |-> "Cookie",
       name |-> <<"C", "o", "o", "k", "i", "e">>],
      [variant |-> "SetCookie",
       name |-> <<"S", "e", "t", "-", "C", "o", "o", "k", "i", "e">>],
      [variant |-> "Location",
       name |-> <<"L", "o", "c", "a", "t", "i", "o", "n">>],
      [variant |-> "Range",
       name |-> <<"R", "a", "n", "g", "e">>],
      [variant |-> "AcceptRanges",
       name |-> <<"A", "c", "c", "e", "p", "t", "-", "R", "a", "n", "g", "e", "s">>],
      [variant |-> "WWWAuthenticate",
       name |-> <<"W", "W", "W", "-", "A", "u", "t", "h", "e", "n", "t", "i", "c", "a", "t", "e">>],
      [variant |-> "ProxyAuthenticate",
       name |-> <<"P", "r", "o", "x", "y", "-", "A", "u", "t", "h", "e", "n", "t", "i", "c", "a", "t", "e">>],
      [variant |-> "StrictTransportSecurity",
       name |-> <<"S", "t", "r", "i", "c", "t", "-", "T", "r", "a", "n", "s", "p", "o", "r", "t", "-", "S", "e", "c", "u", "r", "i", "t", "y">>],
      [variant |-> "ContentSecurityPolicy",
       name |-> <<"C", "o", "n", "t", "e", "n", "t", "-", "S", "e", "c", "u", "r", "i", "t", "y", "-", "P", "o", "l", "i", "c", "y">>],
      [variant |-> "ContentSecurityPolicyReportOnly",
       name |-> <<"C", "o", "n", "t", "e", "n", "t", "-", "S", "e", "c", "u", "r", "i", "t", "y", "-", "P", "o", "l", "i", "c", "y", "-", "R", "e", "p", "o", "r", "t", "-", "O", "n", "l", "y">>],
      [variant |-> "XContentTypeOptions",
       name |-> <<"X", "-", "C", "o", "n", "t", "e", "n", "t", "-", "T", "y", "p", "e", "-", "O", "p", "t", "i", "o", "n", "s">>],
      [variant |-> "XFrameOptions",
       name |-> <<"X", "-", "F", "r", "a", "m", "e", "-", "O", "p", "t", "i", "o", "n", "s">>],
      [variant |-> "XXSSProtection",
       name |-> <<"X", "-", "X", "S", "S", "-", "P", "r", "o", "t", "e", "c", "t", "i", "o", "n">>],
      [variant |-> "ReferrerPolicy",
       name |-> <<"R", "e", "f", "e", "r", "r", "e", "r", "-", "P", "o", "l", "i", "c", "y">>],
      [variant |-> "PermissionsPolicy",
       name |-> <<"P", "e", "r", "m", "i", "s", "s", "i", "o", "n", "s", "-", "P", "o", "l", "i", "c", "y">>],
      [variant |-> "ExpectCT",
       name |-> <<"E", "x", "p", "e", "c", "t", "-", "C", "T">>],
      [variant |-> "AccessControlAllowOrigin",
       name |-> <<"A", "c", "c", "e", "s", "s", "-", "C", "o", "n", "t", "r", "o", "l", "-", "A", "l", "l", "o", "w", "-", "O", "r", "i", "g", "i", "n">>],
      [variant |-> "AccessControlAllowMethods",
       name |-> <<"A", "c", "c", "e", "s", "s", "-", "C", "o", "n", "t", "r", "o", "l", "-", "A", "l", "l", "o", "w", "-", "M", "e", "t", "h", "o", "d", "s">>],
      [variant |-> "AccessControlAllowHeaders",
       name |-> <<"A", "c", "c", "e", "s", "s", "-", "C", "o", "n", "t", "r", "o", "l", "-", "A", "l", "l", "o", "w", "-", "H", "e", "a", "d", "e", "r", "s">>],
      [variant |-> "AccessControlAllowCredentials",
       name |-> <<"A", "c", "c", "e", "s", "s", "-", "C", "o", "n", "t", "r", "o", "l", "-", "A", "l", "l", "o", "w", "-", "C", "r", "e", "d", "e", "n", "t", "i", "a", "l", "s">>],
      [variant |-> "AccessControlExposeHeaders",
       name |-> <<"A", "c", "c", "e", "s", "s", "-", "C", "o", "n", "t", "r", "o", "l", "-", "E", "x", "p", "o", "s", "e", "-", "H", "e", "a", "d", "e", "r", "s">>],
      [variant |-> "AccessControlMaxAge",
       name |-> <<"A", "c", "c", "e", "s", "s", "-", "C", "o", "n", "t", "r", "o", "l", "-", "M", "a", "x", "-", "A", "g", "e">>],
      [variant |-> "AccessControlRequestMethod",
       name |-> <<"A", "c", "c", "e", "s", "s", "-", "C", "o", "n", "t", "r", "o", "l", "-", "R", "e", "q", "u", "e", "s", "t", "-", "M", "e", "t", "h", "o", "d">>],
      [variant |-> "AccessControlRequestHeaders",
       name |-> <<"A", "c", "c", "e", "s", "s", "-", "C", "o", "n", "t", "r", "o", "l", "-", "R", "e", "q", "u", "e", "s", "t", "-", "H", "e", "a", "d", "e", "r", "s">>],
      [variant |-> "SecFetchSite",
       name |-> <<"S", "e", "c", "-", "F", "e", "t", "c", "h", "-", "S", "i", "t", "e">>],
      [variant |-> "SecFetchMode",
       name |-> <<"S", "e", "c", "-", "F", "e", "t", "c", "h", "-", "M", "o", "d", "e">>],
      [variant |-> "SecFetchDest",
       name |-> <<"S", "e", "c", "-", "F", "e", "t", "c", "h", "-", "D", "e", "s", "t">>],
      [variant |-> "SecFetchUser",
       name |-> <<"S", "e", "c", "-", "F", "e", "t", "c", "h", "-", "U", "s", "e", "r">>],
      [variant |-> "SecCHUA",
       name |-> <<"S", "e", "c", "-", "C", "H", "-", "U", "A">>],
      [variant |-> "SecCHUAMobile",
       name |-> <<"S", "e", "c", "-", "C", "H", "-", "U", "A", "-", "M", "o", "b", "i", "l", "e">>],
      [variant |-> "SecCHUAPlatform",
       name |-> <<"S", "e", "c", "-", "C", "H", "-", "U", "A", "-", "P", "l", "a", "t", "f", "o", "r", "m">>],
      [variant |-> "AcceptCH",
       name |-> <<"A", "c", "c", "e", "p", "t", "-", "C", "H">>],
      [variant |-> "Server",
       name |-> <<"S", "e", "r", "v", "e", "r">>],
      [variant |-> "Date",
       name |-> <<"D", "a", "t", "e">>],
      [variant |-> "Allow",
       name |-> <<"A", "l", "l", "o", "w">>],
      [variant |-> "RetryAfter",
       name |-> <<"R", "e", "t", "r", "y", "-", "A", "f", "t", "e", "r">>],
      [variant |-> "Warning",
       name |-> <<"W", "a", "r", "n", "i", "n", "g">>],
      [variant |-> "TE",
       name |-> <<"T", "E">>],
      [variant |-> "SecWebSocketKey",
       name |-> <<"S", "e", "c", "-", "W", "e", "b", "S", "o", "c", "k", "e", "t", "-", "K", "e", "y">>],
      [variant |-> "SecWebSocketAccept",
       name |-> <<"S", "e", "c", "-", "W", "e", "b", "S", "o", "c", "k", "e", "t", "-", "A", "c", "c", "e", "p", "t">>],
      [variant |-> "SecWebSocketVersion",
       name |-> <<"S", "e", "c", "-", "W", "e", "b", "S", "o", "c", "k", "e", "t", "-", "V", "e", "r", "s", "i", "o", "n">>],
      [variant |-> "SecWebSocketProtocol",
       name |-> <<"S", "e", "c", "-", "W", "e", "b", "S", "o", "c", "k", "e", "t", "-", "P", "r", "o", "t", "o", "c", "o", "l">>],
      [variant |-> "Forwarded",
       name |-> <<"F", "o", "r", "w", "a", "r", "d", "e", "d">>],
      [variant |-> "XForwardedFor",
       name |-> <<"X", "-", "F", "o", "r", "w", "a", "r", "d", "e", "d", "-", "F", "o", "r">>],
      [variant |-> "XForwardedHost",
       name |-> <<"X", "-", "F", "o", "r", "w", "a", "r", "d", "e", "d", "-", "H", "o", "s", "t">>],
      [variant |-> "XForwardedProto",
       name |-> <<"X", "-", "F", "o", "r", "w", "a", "r", "d", "e", "d", "-", "P", "r", "o", "t", "o">>],
      [variant |-> "XRealIP",
       name |-> <<"X", "-", "R", "e", "a", "l", "-", "I", "P">>],
      [variant |-> "Expect",
       name |-> <<"E", "x", "p", "e", "c", "t">>],
      [variant |-> "DNT",
       name |-> <<"D", "N", "T">>] }

\* Display for HTTPHeaderType: the canonical name, or the raw text of Other
HTTPHeaderType_fmt(h) ==
    IF h.variant = "Other" THEN h.raw
    ELSE (CHOOSE d \in HeaderDisplayNames : d.variant = h.variant).name

(***************************************************************************)
(* SpecHeader: the header name registry applied to header names.           *)
(***************************************************************************)
MaxNameLen == 2     \* names: every string over NameChars up to this length

NameChars == {"T", "t", "E", "e", "-"}

\* a name with its letters in alternating case, from position i on
AlternateCase(s) ==
    [i \in 1..Len(s) |->
        IF i % 2 = 1 THEN to_uppercase(<<s[i]>>)[1] ELSE to_ascii_lowercase(<<s[i]>>)[1]]

HeaderNameInputs ==
    UNION {{d.name, to_uppercase(d.name), to_ascii_lowercase(d.name), AlternateCase(d.name)} :
              d \in HeaderDisplayNames}
        \cup StringsUpTo(NameChars, MaxNameLen)
        \cup {S_X_Trace, S_x_trace, S_Host \o <<" ">>, <<" ">> \o S_Host,
              <<"H", "o", "s">>, S_Host \o <<"s">>}

InitHeader ==
    /\ RouterIdle
    /\ pattern = <<>>
    /\ target = <<>>
    /\ data \in HeaderNameInputs
    /\ out = None
    /\ op = "init"

\* a call HTTPHeaderType::from_str(data)
HeaderFromStr ==
    /\ out' = ResultOk(HTTPHeaderType_from_str(data))
    /\ op' = "from_str"
    /\ UNCHANGED <<routerVars, serverVars, pattern, target, data>>

\* format!("{}", HTTPHeaderType::from_str(data).unwrap())
HeaderDisplay ==
    /\ out' = HTTPHeaderType_fmt(HTTPHeaderType_from_str(data))
    /\ op' = "display"
    /\ UNCHANGED <<routerVars, serverVars, pattern, target, data>>

NextHeader == HeaderFromStr \/ HeaderDisplay

SpecHeader == InitHeader /\ [][NextHeader]_vars

(***************************************************************************)
(* Claims about the header name registry (SpecHeader).                     *)
(***************************************************************************)
\* the known identifiers whose canonical name equals a name but for case
CanonicalFor(name) ==
    {d \in HeaderDisplayNames : to_ascii_lowercase(d.name) = to_ascii_lowercase(name)}

\* C12: parsing a header name never fails; a canonical name in any letter
\* case parses to its identifier; a name parses to Other(raw) exactly when
\* no canonical name equals it but for case, and Other(raw) displays as raw.
C12_HeaderRegistry ==
    /\ op = "from_str" =>
          /\ out.ok
          /\ \A d \in CanonicalFor(data) : out.val = [variant |-> d.variant, raw |-> <<>>]
          /\ out.val.variant = "Other" <=> CanonicalFor(data) = {}
          /\ out.val.variant = "Other" => out.val.raw = data
    /\ op = "display" =>
          /\ CanonicalFor(data) = {} => out = data
          /\ \A d \in CanonicalFor(data) : out = d.name

\* C12 witness: "content-type" written in alternating case parsed to the
\* ContentType identifier.
C12_Witness ==
    /\ op = "from_str"
    /\ data = <<"C", "o", "N", "t", "E", "n", "T", "-", "T", "y", "P", "e">>
    /\ out = ResultOk([variant |-> "ContentType", raw |-> <<>>])

(***************************************************************************)
(* models/http.rs: HTTPStatus and Display for HTTPResponse.                *)
(***************************************************************************)
\* the arms of HTTPStatus::code
HTTPStatus_codes ==
    {
      [status |-> "Continue", code |-> 100],
      [status |-> "SwitchingProtocols", code |-> 101],
      [status |-> "Processing", code |-> 102],
      [status |-> "EarlyHints", code |-> 103],
      [status |-> "Ok", code |-> 200],
      [status |-> "Created", code |-> 201],
      [status |-> "Accepted", code |-> 202],
      [status |-> "NonAuthoritativeInformation", code |-> 203],
      [status |-> "NoContent", code |-> 204],
      [status |-> "ResetContent", code |-> 205],
      [status |-> "PartialContent", code |-> 206],
      [status |-> "MultiStatus", code |-> 207],
      [status |-> "AlreadyReported", code |-> 208],
      [status |-> "ImUsed", code |-> 226],
      [status |-> "MultipleChoices", code |-> 300],
      [status |-> "MovedPermanently", code |-> 301],
      [status |-> "Found", code |-> 302],
      [status |-> "SeeOther", code |-> 303],
      [status |-> "NotModified", code |-> 304],
      [status |-> "UseProxy", code |-> 305],
      [status |-> "TemporaryRedirect", code |-> 307],
      [status |-> "PermanentRedirect", code |-> 308],
      [status |-> "BadRequest", code |-> 400],
      [status |-> "Unauthorized", code |-> 401],
      [status |-> "PaymentRequired", code |-> 402],
      [status |-> "Forbidden", code |-> 403],
      [status |-> "NotFound", code |-> 404],
      [status |-> "MethodNotAllowed", code |-> 405],
      [status |-> "NotAcceptable", code |-> 406],
      [status |-> "ProxyAuthenticationRequired", code |-> 407],
      [status |-> "RequestTimeout", code |-> 408],
      [status |-> "Conflict", code |-> 409],
      [status |-> "Gone", code |-> 410],
      [status |-> "LengthRequired", code |-> 411],
      [status |-> "PreconditionFailed", code |-> 412],
      [status |-> "PayloadTooLarge", code |-> 413],
      [status |-> "UriTooLong", code |-> 414],
      [status |-> "UnsupportedMediaType", code |-> 415],
      [status |-> "RangeNotSatisfiable", code |-> 416],
      [status |-> "ExpectationFailed", code |-> 417],
      [status |-> "ImATeapot", code |-> 418],
      [status |-> "MisdirectedRequest", code |-> 421],
      [status |-> "UnprocessableEntity", code |-> 422],
      [status |-> "Locked", code |-> 423],
      [status |-> "FailedDependency", code |-> 424],
      [status |-> "TooEarly", code |-> 425],
      [status |-> "UpgradeRequired", code |-> 426],
      [status |-> "PreconditionRequired", code |-> 428],
      [status |-> "TooManyRequests", code |-> 429],
      [status |-> "RequestHeaderFieldsTooLarge", code |-> 431],
      [status |-> "UnavailableForLegalReasons", code |-> 451],
      [status |-> "InternalServerError", code |-> 500],
      [status |-> "NotImplemented", code |-> 501],
      [status |-> "BadGateway", code |-> 502],
      [status |-> "ServiceUnavailable", code |-> 503],
      [status |-> "GatewayTimeout", code |-> 504],
      [status |-> "HttpVersionNotSupported", code |-> 505],
      [status |-> "VariantAlsoNegotiates", code |-> 506],
      [status |-> "InsufficientStorage", code |-> 507],
      [status |-> "LoopDetected", code |-> 508],
      [status |-> "NotExtended", code |-> 510],
      [status |-> "NetworkAuthenticationRequired", code |-> 511] }

\* the arms of Display for HTTPStatus
HTTPStatus_reasons ==
    {
      [status |-> "Continue",
       reason |-> <<"C", "o", "n", "t", "i", "n", "u", "e">>],
      [status |-> "SwitchingProtocols",
       reason |-> <<"S", "w", "i", "t", "c", "h", "i", "n", "g", " ", "P", "r", "o", "t", "o", "c", "o", "l", "s">>],
      [status |-> "Processing",
       reason |-> <<"P", "r", "o", "c", "e", "s", "s", "i", "n", "g">>],
      [status |-> "EarlyHints",
       reason |-> <<"E", "a", "r", "l", "y", " ", "H", "i", "n", "t", "s">>],
      [status |-> "Ok",
       reason |-> <<"O", "K">>],
      [status |-> "Created",
       reason |-> <<"C", "r", "e", "a", "t", "e", "d">>],
      [status |-> "Accepted",
       reason |-> <<"A", "c", "c", "e", "p", "t", "e", "d">>],
      [status |-> "NonAuthoritativeInformation",
       reason |-> <<"N", "o", "n", " ", "A", "u", "t", "h", "o", "r", "i", "t", "a", "t", "i", "v", "e", " ", "I", "n", "f", "o", "r", "m", "a", "t", "i", "o", "n">>],
      [status |-> "NoContent",
       reason |-> <<"N", "o", " ", "C", "o", "n", "t", "e", "n", "t">>],
      [status |-> "ResetContent",
       reason |-> <<"R", "e", "s", "e", "t", " ", "C", "o", "n", "t", "e", "n", "t">>],
      [status |-> "PartialContent",
       reason |-> <<"P", "a", "r", "t", "i", "a", "l", " ", "C", "o", "n", "t", "e", "n", "t">>],
      [status |-> "MultiStatus",
       reason |-> <<"M", "u", "l", "t", "i", "-", "S", "t", "a", "t", "u", "s">>],
      [status |-> "AlreadyReported",
       reason |-> <<"A", "l", "r", "e", "a", "d", "y", " ", "R", "e", "p", "o", "r", "t", "e", "d">>],
      [status |-> "ImUsed",
       reason |-> <<"I", "M", " ", "U", "s", "e", "d">>],
      [status |-> "MultipleChoices",
       reason |-> <<"M", "u", "l", "t", "i", "p", "l", "e", " ", "C", "h", "o", "i", "c", "e", "s">>],
      [status |-> "MovedPermanently",
       reason |-> <<"M", "o", "v", "e", "d", " ", "P", "e", "r", "m", "a", "n", "e", "n", "t", "l", "y">>],
      [status |-> "Found",
       reason |-> <<"F", "o", "u", "n", "d">>],
      [status |-> "SeeOther",
       reason |-> <<"S", "e", "e", " ", "O", "t", "h", "e", "r">>],
      [status |-> "NotModified",
       reason |-> <<"N", "o", "t", " ", "M", "o", "d", "i", "f", "i", "e", "d">>],
      [status |-> "UseProxy",
       reason |-> <<"U", "s", "e", " ", "P", "r", "o", "x", "y">>],
      [status |-> "TemporaryRedirect",
       reason |-> <<"T", "e", "m", "p", "o", "r", "a", "r", "y", " ", "R", "e", "d", "i", "r", "e", "c", "t">>],
      [status |-> "PermanentRedirect",
       reason |-> <<"P", "e", "r", "m", "a", "n", "e", "n", "t", " ", "R", "e", "d", "i", "r", "e", "c", "t">>],
      [status |-> "BadRequest",
       reason |-> <<"B", "a", "d", " ", "R", "e", "q", "u", "e", "s", "t">>],
      [status |-> "Unauthorized",
       reason |-> <<"U", "n", "a", "u", "t", "h", "o", "r", "i", "z", "e", "d">>],
      [status |-> "PaymentRequired",
       reason |-> <<"P", "a", "y", "m", "e", "n", "t", " ", "R", "e", "q", "u", "i", "r", "e", "d">>],
      [status |-> "Forbidden",
       reason |-> <<"F", "o", "r", "b", "i", "d", "d", "e", "n">>],
      [status |-> "NotFound",
       reason |-> <<"N", "o", "t", " ", "F", "o", "u", "n", "d">>],
      [status |-> "MethodNotAllowed",
       reason |-> <<"M", "e", "t", "h", "o", "d", " ", "N", "o", "t", " ", "A", "l", "l", "o", "w", "e", "d">>],
      [status |-> "NotAcceptable",
       reason |-> <<"N", "o", "t", " ", "A", "c", "c", "e", "p", "t", "a", "b", "l", "e">>],
      [status |-> "ProxyAuthenticationRequired",
       reason |-> <<"P", "r", "o", "x", "y", " ", "A", "u", "t", "h", "e", "n", "t", "i", "c", "a", "t", "i", "o", "n", " ", "R", "e", "q", "u", "i", "r", "e", "d">>],
      [status |-> "RequestTimeout",
       reason |-> <<"R", "e", "q", "u", "e", "s", "t", " ", "T", "i", "m", "e", "o", "u", "t">>],
      [status |-> "Conflict",
       reason |-> <<"C", "o", "n", "f", "l", "i", "c", "t">>],
      [status |-> "Gone",
       reason |-> <<"G", "o", "n", "e">>],
      [status |-> "LengthRequired",
       reason |-> <<"L", "e", "n", "g", "t", "h", " ", "R", "e", "q", "u", "i", "r", "e", "d">>],
      [status |-> "PreconditionFailed",
       reason |-> <<"P", "r", "e", "c", "o", "n", "d", "i", "t", "i", "o", "n", " ", "F", "a", "i", "l", "e", "d">>],
      [status |-> "PayloadTooLarge",
       reason |-> <<"P", "a", "y", "l", "o", "a", "d", " ", "T", "o", "o", " ", "L", "a", "r", "g", "e">>],
      [status |-> "UriTooLong",
       reason |-> <<"U", "R", "I", " ", "T", "o", "o", " ", "L", "o", "n", "g">>],
      [status |-> "UnsupportedMediaType",
       reason |-> <<"U", "n", "s", "u", "p", "p", "o", "r", "t", "e", "d", " ", "M", "e", "d", "i", "a", " ", "T", "y", "p", "e">>],
      [status |-> "RangeNotSatisfiable",
       reason |-> <<"R", "a", "n", "g", "e", " ", "N", "o", "t", " ", "S", "a", "t", "i", "s", "f", "i", "a", "b", "l", "e">>],
      [status |-> "ExpectationFailed",
       reason |-> <<"E", "x", "p", "e", "c", "t", "a", "t", "i", "o", "n", " ", "F", "a", "i", "l", "e", "d">>],
      [status |-> "ImATeapot",
       reason |-> <<"I", "'", "m", " ", "a", " ", "t", "e", "a", "p", "o", "t">>],
      [status |-> "MisdirectedRequest",
       reason |-> <<"M", "i", "s", "d", "i", "r", "e", "c", "t", "e", "d", " ", "R", "e", "q", "u", "e", "s", "t">>],
      [status |-> "UnprocessableEntity",
       reason |-> <<"U", "n", "p", "r", "o", "c", "e", "s", "s", "a", "b", "l", "e", " ", "E", "n", "t", "i", "t", "y">>],
      [status |-> "Locked",
       reason |-> <<"L", "o", "c", "k", "e", "d">>],
      [status |-> "FailedDependency",
       reason |-> <<"F", "a", "i", "l", "e", "d", " ", "D", "e", "p", "e", "n", "d", "e", "n", "c", "y">>],
      [status |-> "TooEarly",
       reason |-> <<"T", "o", "o", " ", "E", "a", "r", "l", "y">>],
      [status |-> "UpgradeRequired",
       reason |-> <<"U", "p", "g", "r", "a", "d", "e", " ", "R", "e", "q", "u", "i", "r", "e", "d">>],
      [status |-> "PreconditionRequired",
       reason |-> <<"P", "r", "e", "c", "o", "n", "d", "i", "t", "i", "o", "n", " ", "R", "e", "q", "u", "i", "r", "e", "d">>],
      [status |-> "TooManyRequests",
       reason |-> <<"T", "o", "o", " ", "M", "a", "n", "y", " ", "R", "e", "q", "u", "e", "s", "t", "s">>],
      [status |-> "RequestHeaderFieldsTooLarge",
       reason |-> <<"R", "e", "q", "u", "e", "s", "t", " ", "H", "e", "a", "d", "e", "r", " ", "F", "i", "e", "l", "d", "s", " ", "T", "o", "o", " ", "L", "a", "r", "g", "e">>],
      [status |-> "UnavailableForLegalReasons",
       reason |-> <<"U", "n", "a", "v", "a", "i", "l", "a", "b", "l", "e", " ", "F", "o", "r", " ", "L", "e", "g", "a", "l", " ", "R", "e", "a", "s", "o", "n", "s">>],
      [status |-> "InternalServerError",
       reason |-> <<"I", "n", "t", "e", "r", "n", "a", "l", " ", "S", "e", "r", "v", "e", "r", " ", "E", "r", "r", "o", "r">>],
      [status |-> "NotImplemented",
       reason |-> <<"N", "o", "t", " ", "I", "m", "p", "l", "e", "m", "e", "n", "t", "e", "d">>],
      [status |-> "BadGateway",
       reason |-> <<"B", "a", "d", " ", "G", "a", "t", "e", "w", "a", "y">>],
      [status |-> "ServiceUnavailable",
       reason |-> <<"S", "e", "r", "v", "i", "c", "e", " ", "U", "n", "a", "v", "a", "i", "l", "a", "b", "l", "e">>],
      [status |-> "GatewayTimeout",
       reason |-> <<"G", "a", "t", "e", "w", "a", "y", " ", "T", "i", "m", "e", "o", "u", "t">>],
      [status |-> "HttpVersionNotSupported",
       reason |-> <<"H", "T", "T", "P", " ", "V", "e", "r", "s", "i", "o", "n", " ", "N", "o", "t", " ", "S", "u", "p", "p", "o", "r", "t", "e", "d">>],
      [status |-> "VariantAlsoNegotiates",
       reason |-> <<"V", "a", "r", "i", "a", "n", "t", " ", "A", "l", "s", "o", " ", "N", "e", "g", "o", "t", "i", "a", "t", "e", "s">>],
      [status |-> "InsufficientStorage",
       reason |-> <<"I", "n", "s", "u", "f", "f", "i", "c", "i", "e", "n", "t", " ", "S", "t", "o", "r", "a", "g", "e">>],
      [status |-> "LoopDetected",
       reason |-> <<"L", "o", "o", "p", " ", "D", "e", "t", "e", "c", "t", "e", "d">>],
      [status |-> "NotExtended",
       reason |-> <<"N", "o", "t", " ", "E", "x", "t", "e", "n", "d", "e", "d">>],
      [status |-> "NetworkAuthenticationRequired",
       reason |-> <<"N", "e", "t", "w", "o", "r", "k", " ", "A", "u", "t", "h", "e", "n", "t", "i", "c", "a", "t", "i", "o", "n", " ", "R", "e", "q", "u", "i", "r", "e", "d">>] }

HTTPStatus_code(status) == (CHOOSE r \in HTTPStatus_codes : r.status = status).code

HTTPStatus_fmt(status) == (CHOOSE r \in HTTPStatus_reasons : r.status = status).reason

Digits == <<"0", "1", "2", "3", "4", "5", "6", "7", "8", "9">>

\* Display for u16: the decimal digits, no sign, no leading zero
RECURSIVE u16_to_string(_)
u16_to_string(n) ==
    IF n < 10 THEN <<Digits[n + 1]>>
    ELSE u16_to_string(n \div 10) \o <<Digits[(n % 10) + 1]>>

S_HTTP1_1_sp == S_HTTP1_1 \o <<" ">>

\* the orders in which a HashMap with key set S may be iterated
Orders(S) ==
    {o \in [1..Cardinality(S) -> S] : \A i, j \in 1..Cardinality(S) : o[i] = o[j] => i = j}

\* the for loop of Display for HTTPResponse over the entries from i on
RECURSIVE push_headers(_, _, _, _)
push_headers(res, headers, order, i) ==
    IF i > Len(order) THEN res
    ELSE push_headers(res \o HTTPHeaderType_fmt(order[i]) \o <<":", " ">>
                          \o headers[order[i]] \o CRLF,
                      headers, order, i + 1)

\* Display for HTTPResponse with a slip: the line that ends the headers is
\* pushed only when there are headers
HTTPResponse_fmt_no_blank_line(self, order) ==
    LET res0 == S_HTTP1_1_sp \o u16_to_string(HTTPStatus_code(self.status))
                    \o <<" ">> \o HTTPStatus_fmt(self.status) \o CRLF
        res1 == push_headers(res0, self.headers, order, 1)
        res2 == IF Len(order) > 0 THEN res1 \o CRLF ELSE res1
    IN  IF self.body.some THEN res2 \o self.body.val ELSE res2

\* Display for HTTPResponse, the map iterated in the order given
HTTPResponse_fmt(self, order) ==
    LET res0 == S_HTTP1_1_sp \o u16_to_string(HTTPStatus_code(self.status))
                    \o <<" ">> \o HTTPStatus_fmt(self.status) \o CRLF
        res1 == push_headers(res0, self.headers, order, 1)
        res2 == res1 \o CRLF
    IN  IF self.body.some THEN res2 \o self.body.val ELSE res2

(***************************************************************************)
(* SpecSerialize: responses turned into text.                              *)
(***************************************************************************)
MaxHeaders == 2     \* responses carry at most this many headers

S_text_html == <<"t", "e", "x", "t", "/", "h", "t", "m", "l">>

Statuses == {r.status : r \in HTTPStatus_codes}

H_Host == [variant |-> "Host", raw |-> <<>>]
H_ContentType == [variant |-> "ContentType", raw |-> <<>>]
H_ContentLength == [variant |-> "ContentLength", raw |-> <<>>]
H_X_Trace == [variant |-> "Other", raw |-> S_X_Trace]

SampleHeaders ==
    [h \in {H_Host, H_ContentType, H_ContentLength, H_X_Trace} |->
        CASE h = H_Host -> S_localhost
          [] h = H_ContentType -> S_text_html
          [] h = H_ContentLength -> <<"1", "1">>
          [] OTHER -> <<>>]

HeaderMaps ==
    {[h \in K |-> SampleHeaders[h]] :
        K \in {K \in SUBSET DOMAIN SampleHeaders : Cardinality(K) <= MaxHeaders}}

Bodies == {None, Some(<<>>), Some(S_hello_world), Some(CRLF \o S_Route_not_found)}

Responses ==
    {[status |-> st, headers |-> hs, body |-> b] :
        st \in Statuses, hs \in HeaderMaps, b \in Bodies}

InitSerialize ==
    /\ RouterIdle
    /\ pattern = <<>>
    /\ target = <<>>
    /\ data \in Responses
    /\ out = None
    /\ op = "init"

\* a call data.to_string()
Serialize ==
    /\ \E order \in Orders(DOMAIN data.headers) : out' = HTTPResponse_fmt(data, order)
    /\ op' = "to_string"
    /\ UNCHANGED <<routerVars, serverVars, pattern, target, data>>

NextSerialize == Serialize

SpecSerialize == InitSerialize /\ [][NextSerialize]_vars

(***************************************************************************)
(* Claims about the serializer (SpecSerialize).                            *)
(***************************************************************************)
RECURSIVE Flatten(_)
Flatten(seqs) == IF seqs = <<>> THEN <<>> ELSE Head(seqs) \o Flatten(Tail(seqs))

StatusLine(status) ==
    <<"H", "T", "T", "P", "/", "1", ".", "1", " ">>
        \o u16_to_string(HTTPStatus_code(status)) \o <<" ">> \o HTTPStatus_fmt(status)
        \o <<"\r", "\n">>

HeaderLineOf(headers, h) ==
    HTTPHeaderType_fmt(h) \o <<":", " ">> \o headers[h] \o <<"\r", "\n">>

\* C13: the text of a response is the status line with the code and reason
\* of its status, then one "Name: value\r\n" line for each entry of the
\* header map, each entry once, in some order, then "\r\n", then the body
\* when there is one and nothing otherwise.
C13_SerializedForm ==
    op = "to_string" =>
        \E o \in Orders(DOMAIN data.headers) :
            out = StatusLine(data.status)
                    \o Flatten([i \in 1..Len(o) |-> HeaderLineOf(data.headers, o[i])])
                    \o <<"\r", "\n">>
                    \o (IF data.body.some THEN data.body.val ELSE <<>>)

\* C13 witness: a 404 response with no header and no body was serialized as
\* "HTTP/1.1 404 Not Found\r\n\r\n".
C13_Witness ==
    /\ op = "to_string"
    /\ data = [status |-> "NotFound", headers |-> EmptyMap, body |-> None]
    /\ out = <<"H", "T", "T", "P", "/", "1", ".", "1", " ", "4", "0", "4", " ",
               "N", "o", "t", " ", "F", "o", "u", "n", "d", "\r", "\n", "\r", "\n">>

(***************************************************************************)
(* httpserver.rs: HTTPServer and handle_connection.                        *)
(*                                                                         *)
(* A connection is a record: the name of the text that has arrived from    *)
(* the client when the read returns, the position of its handler, how it   *)
(* ended, the steps it has taken (ghost) and the values of its locals.     *)
(* Each handler runs as its own tokio task, so the steps of different      *)
(* connections interleave freely.                                          *)
(***************************************************************************)
BufferSize == 1024  \* let mut buffer = [0; 1024]
MaxConns == 2       \* connections accepted in a behaviour of the server

Min(a, b) == IF a < b THEN a ELSE b

S_BREW == <<"B", "R", "E", "W">>

RequestText(method, url, version) ==
    method \o <<" ">> \o url \o <<" ">> \o version \o CRLF
        \o HeaderLine(S_Host, S_localhost) \o CRLF

\* what clients send, by name: a request of the route bound in the tests,
\* of the route bound by main.rs, of an unbound route, one with an
\* unsupported method, and a request of a bound route with a line that
\* makes it longer than the buffer
ClientInputs ==
    [name \in {"found", "test", "not_found", "bad_method", "oversize"} |->
        CASE name = "found" -> RequestText(S_GET, S_posts_42, S_HTTP1_1)
          [] name = "test" -> RequestText(S_GET, S_slash_test, S_HTTP1_1)
          [] name = "not_found" -> RequestText(S_GET, S_x, S_HTTP1_1)
          [] name = "bad_method" -> RequestText(S_BREW, S_x, S_HTTP1_1)
          [] OTHER -> S_GET \o <<" ">> \o S_posts_42 \o <<" ">> \o S_HTTP1_1 \o CRLF
                          \o [i \in 1..BufferSize |-> "a"] \o CRLF \o CRLF]

\* &buffer[..size] after stream.read(&mut buffer) on each input: the bytes
\* that fit the buffer
BufferOf ==
    [name \in DOMAIN ClientInputs |->
        Take(ClientInputs[name], Min(Len(ClientInputs[name]), BufferSize))]

\* the requests sent to the server of httpserver.rs, and to that of main.rs
ServerInputs == {"found", "not_found", "bad_method", "oversize"}
MainInputs == {"test", "found", "not_found", "bad_method", "oversize"}

\* HTTPRequest::new(s.to_string()) for the buffers of the server model,
\* computed once
RequestOf == [name \in DOMAIN ClientInputs |-> HTTPRequest_new(BufferOf[name])]

NoData == [kind |-> "none", request |-> None, panic |-> ""]

\* the state of a task that tokio::spawn has just created
NewConn(input) ==
    [input |-> input, pc |-> "accepted", end |-> "", steps |-> <<>>, reads |-> 0,
     size |-> 0, data |-> NoData, res |-> None, hmm |-> NotCalled,
     text |-> <<>>, wrote |-> <<>>]

\* a task that ended at the step it was about to take
Ended(conn, how) == [conn EXCEPT !.pc = "done", !.end = how]

\* stream.read(&mut buffer): at most buffer.len() bytes, once
conn_read(conn) ==
    [conn EXCEPT !.pc = "read",
                 !.steps = Append(@, "read"),
                 !.reads = @ + 1,
                 !.size = Len(BufferOf[conn.input])]

\* HTTPRequest::new(s.to_string()): a panic inside unwinds the handler
conn_parse(conn) ==
    LET data_ == RequestOf[conn.input]
    IN  IF data_.kind = "panic"
        THEN Ended([conn EXCEPT !.data = data_, !.steps = Append(@, "parse")], "panic")
        ELSE [conn EXCEPT !.pc = "parsed", !.steps = Append(@, "parse"), !.data = data_]

\* let mut res = HTTPResponse::default(); router.handle(...); on Err the
\* response is replaced by the error response
conn_dispatch(conn, rs) ==
    LET req == conn.data.request
        r == handle_loop(rs, 1, req.method, req, HTTPResponse_default, <<>>)
    IN  [conn EXCEPT !.pc = "dispatched",
                     !.steps = Append(@, "dispatch"),
                     !.hmm = r.ret,
                     !.res = IF r.ret.ok THEN r.response
                             ELSE HTTPResponse_error("InternalServerError", r.ret.err)]

\* res.to_string(), the argument of write_all
conn_serialize(conn, order) ==
    [conn EXCEPT !.steps = Append(@, "serialize"),
                 !.text = HTTPResponse_fmt(conn.res, order)]

\* stream.write_all with a slip: the handler goes back to read another
\* request from the same connection
conn_write_keep_alive(conn) ==
    [conn EXCEPT !.pc = "accepted",
                 !.steps = Append(@, "write"),
                 !.wrote = Append(@, conn.text)]

\* stream.write_all(..).await?, then Ok(()): the task ends
conn_write(conn) ==
    Ended([conn EXCEPT !.steps = Append(@, "write"), !.wrote = Append(@, conn.text)], "ok")

\* HTTPServer::new with a slip: the caller keeps a handle on the table
RouterOwned_shared(ph) == ph \in {"setup", "serving"}

\* the caller owns the Router until HTTPServer::new takes it by value and
\* puts it in an Arc, which hands out shared references only
RouterOwned(ph) == ph = "setup"

\* the bind calls of the program that builds the server, in program order
ServerSetup == <<[method |-> "GET", pattern |-> S_posts_id]>>

InitServer ==
    /\ RouterIdle
    /\ pattern = <<>>
    /\ target = <<>>
    /\ data = <<>>
    /\ out = None
    /\ op = "new"

\* the next router.bind(...) of the program that builds the server
ServerBind ==
    /\ RouterOwned(phase)
    /\ Len(binds) < Len(ServerSetup)
    /\ Bind(ServerSetup[Len(binds) + 1].method, ServerSetup[Len(binds) + 1].pattern)

\* HTTPServer::new(port, router, context) and start() up to the loop
Start ==
    /\ phase = "setup"
    /\ phase' \in {"serving", "bind_failed"}
    /\ UNCHANGED <<routerVars, conns, pattern, target, data, out, op>>

\* listener.accept().await? then tokio::spawn(handle_connection(..))
Accept(input) ==
    /\ phase = "serving"
    /\ Len(conns) < MaxConns
    /\ conns' = Append(conns, NewConn(input))
    /\ UNCHANGED <<routerVars, phase, pattern, target, data, out, op>>

\* listener.accept().await? returns the error: start() returns it
AcceptFails ==
    /\ phase = "serving"
    /\ phase' = "accept_failed"
    /\ UNCHANGED <<routerVars, conns, pattern, target, data, out, op>>

\* one step of a task leaves everything but its own connection alone
ConnStep(c, conn) ==
    /\ conns' = [conns EXCEPT ![c] = conn]
    /\ UNCHANGED <<routerVars, phase, pattern, target, data, out, op>>

Read(c) ==
    /\ c \in DOMAIN conns
    /\ conns[c].pc = "accepted"
    /\ ConnStep(c, conn_read(conns[c]))

\* stream.read(..).await? returns the error: logged by the task, which ends
ReadFails(c) ==
    /\ c \in DOMAIN conns
    /\ conns[c].pc = "accepted"
    /\ ConnStep(c, Ended([conns[c] EXCEPT !.steps = Append(@, "read"), !.reads = @ + 1],
                         "io_error"))

ParseStep(c) ==
    /\ c \in DOMAIN conns
    /\ conns[c].pc = "read"
    /\ ConnStep(c, conn_parse(conns[c]))

Dispatch(c) ==
    /\ c \in DOMAIN conns
    /\ conns[c].pc = "parsed"
    /\ ConnStep(c, conn_dispatch(conns[c], routes))

\* stream.write_all(res.to_string().as_bytes()).await?; Ok(())
Write(c) ==
    /\ c \in DOMAIN conns
    /\ conns[c].pc = "dispatched"
    /\ \E order \in Orders(DOMAIN conns[c].res.headers) :
           ConnStep(c, conn_write(conn_serialize(conns[c], order)))

\* stream.write_all(..).await? returns the error: logged by the task
WriteFails(c) ==
    /\ c \in DOMAIN conns
    /\ conns[c].pc = "dispatched"
    /\ \E order \in Orders(DOMAIN conns[c].res.headers) :
           ConnStep(c, Ended([conn_serialize(conns[c], order)
                                 EXCEPT !.steps = Append(@, "write")], "io_error"))

\* the steps of the task of connection c
Task(c) ==
    \/ Read(c)
    \/ ReadFails(c)
    \/ ParseStep(c)
    \/ Dispatch(c)
    \/ Write(c)
    \/ WriteFails(c)

NextServer ==
    \/ ServerBind
    \/ Start
    \/ \E input \in ServerInputs : Accept(input)
    \/ AcceptFails
    \/ \E c \in 1..MaxConns : Task(c)

SpecServer == InitServer /\ [][NextServer]_vars

\* the runtime runs every spawned task that can take a step
FairSpecServer == SpecServer /\ \A c \in 1..MaxConns : WF_vars(Task(c))

(***************************************************************************)
(* main.rs: the blocking server.  main.rs calls Router::handle and bind    *)
(* with the arguments of an earlier Router; the model reads the call as    *)
(* the dispatch of data on data.method.  Connections are handled one after *)
(* the other on the main thread.                                           *)
(***************************************************************************)
\* the bind calls of main, in program order
MainSetup == <<[method |-> "GET", pattern |-> S_slash_test]>>

\* router.handle(..): the bound closure stores HTTPResponse::default() in
\* res, and on Err the error is printed and res is left as it was
main_dispatch(conn, rs) ==
    LET req == conn.data.request
        r == handle_loop(rs, 1, req.method, req, HTTPResponse_default, <<>>)
    IN  [conn EXCEPT !.pc = "dispatched",
                     !.steps = Append(@, "dispatch"),
                     !.hmm = r.ret,
                     !.res = HTTPResponse_default]

\* how main ends when handle_connection ends this way
MainAfter(end) ==
    CASE end = "io_error" -> "conn_error"
      [] end = "panic" -> "crashed"
      [] OTHER -> "listening"

\* TcpListener::bind("127.0.0.1:3000")?
MainListen ==
    /\ phase = "setup"
    /\ phase' \in {"listening", "bind_failed"}
    /\ UNCHANGED <<routerVars, conns, pattern, target, data, out, op>>

\* the next router.bind(...) of main
MainBind ==
    /\ phase = "listening"
    /\ Len(binds) < Len(MainSetup)
    /\ Bind(MainSetup[Len(binds) + 1].method, MainSetup[Len(binds) + 1].pattern)

\* main is at the head of `for stream in listener.incoming()`
AtLoopHead ==
    /\ phase = "listening"
    /\ Len(binds) = Len(MainSetup)
    /\ \A c \in DOMAIN conns : conns[c].pc = "done"

\* let stream = stream?; handle_connection(stream, &router) is entered
MainAccept(input) ==
    /\ AtLoopHead
    /\ Len(conns) < MaxConns
    /\ conns' = Append(conns, NewConn(input))
    /\ UNCHANGED <<routerVars, phase, pattern, target, data, out, op>>

\* let stream = stream?; returns the error from main
MainAcceptFails ==
    /\ AtLoopHead
    /\ phase' = "accept_failed"
    /\ UNCHANGED <<routerVars, conns, pattern, target, data, out, op>>

\* one step of handle_connection on the main thread: an error it returns
\* is returned by main (`handle_connection(stream, &router)?`), a panic in
\* it is a panic of main
MainStep(c, conn) ==
    /\ phase = "listening"
    /\ c = Len(conns)
    /\ conns' = [conns EXCEPT ![c] = conn]
    /\ phase' = MainAfter(conn.end)
    /\ UNCHANGED <<routerVars, pattern, target, data, out, op>>

MainRead(c) ==
    /\ c \in DOMAIN conns
    /\ conns[c].pc = "accepted"
    /\ MainStep(c, conn_read(conns[c]))

MainReadFails(c) ==
    /\ c \in DOMAIN conns
    /\ conns[c].pc = "accepted"
    /\ MainStep(c, Ended([conns[c] EXCEPT !.steps = Append(@, "read"), !.reads = @ + 1],
                         "io_error"))

MainParse(c) ==
    /\ c \in DOMAIN conns
    /\ conns[c].pc = "read"
    /\ MainStep(c, conn_parse(conns[c]))

MainDispatch(c) ==
    /\ c \in DOMAIN conns
    /\ conns[c].pc = "parsed"
    /\ MainStep(c, main_dispatch(conns[c], routes))

\* stream.write_all(res.to_string().as_bytes())?; stream.flush()?; Ok(())
MainWrite(c) ==
    /\ c \in DOMAIN conns
    /\ conns[c].pc = "dispatched"
    /\ \E order \in Orders(DOMAIN conns[c].res.headers) :
           MainStep(c, conn_write(conn_serialize(conns[c], order)))

MainWriteFails(c) ==
    /\ c \in DOMAIN conns
    /\ conns[c].pc = "dispatched"
    /\ \E order \in Orders(DOMAIN conns[c].res.headers) :
           MainStep(c, Ended([conn_serialize(conns[c], order)
                                 EXCEPT !.steps = Append(@, "write")], "io_error"))

NextMain ==
    \/ MainListen
    \/ MainBind
    \/ \E input \in MainInputs : MainAccept(input)
    \/ MainAcceptFails
    \/ \E c \in 1..MaxConns :
          \/ MainRead(c)
          \/ MainReadFails(c)
          \/ MainParse(c)
          \/ MainDispatch(c)
          \/ MainWrite(c)
          \/ MainWriteFails(c)

SpecMain == InitServer /\ [][NextMain]_vars

(***************************************************************************)
(* Claims about the server (SpecServer, FairSpecServer).                   *)
(***************************************************************************)
StepOrder == <<"read", "parse", "dispatch", "serialize", "write">>

IsPrefix(a, b) == Len(a) <= Len(b) /\ a = Take(b, Len(a))

\* the handler of the connection got a result from Router::handle
Dispatched(conn) == conn.hmm # NotCalled

\* the handler of connection c has ended
Finished(c) == c \in DOMAIN conns /\ conns[c].pc = "done"

C19_TableFixedWhileServing ==
    [][(phase # "setup" \/ phase' # "setup") => (routes' = routes /\ binds' = binds)]_vars

\* C19 witness: the server is serving a table with an entry, and two
\* handlers have dispatched against it and not yet written.
C19_Witness ==
    /\ phase = "serving"
    /\ routes # <<>>
    /\ \E c, d \in DOMAIN conns :
          /\ c # d
          /\ conns[c].pc = "dispatched"
          /\ conns[d].pc = "dispatched"
          /\ conns[c].hmm.ok
          /\ ~conns[d].hmm.ok

\* the handler of the connection has run to its end, one way or another
Over(conn) == conn.pc = "done"

\* the text is a response whose status code lies between lo and hi
ResponseInClass(text, lo, hi) ==
    \E st \in Statuses :
        /\ HTTPStatus_code(st) \in lo..hi
        /\ IsPrefix(StatusLine(st), text)

\* C14, as stated: when Router::handle returned Route not found for the
\* request of a connection and the handler wrote its response, the response
\* is the error response with status 404 Not Found, the error message as
\* body and no headers.
C14_AsStated ==
    \A c \in DOMAIN conns :
        (Dispatched(conns[c]) /\ ~conns[c].hmm.ok /\ conns[c].end = "ok") =>
            /\ conns[c].res = HTTPResponse_error("NotFound", conns[c].hmm.err)
            /\ conns[c].wrote = <<HTTPResponse_fmt(conns[c].res, <<>>)>>

\* C15, as stated: when the bytes read from a connection fail to parse, the
\* handler does not dispatch, it writes a response of the 400 class to the
\* connection, and the server keeps running.
C15_AsStated ==
    \A c \in DOMAIN conns :
        (Over(conns[c]) /\ conns[c].data.kind = "panic") =>
            /\ ~Dispatched(conns[c])
            /\ Len(conns[c].wrote) = 1
            /\ ResponseInClass(conns[c].wrote[1], 400, 499)
            /\ phase # "crashed"

\* a failure of the handling of a connection: its handler panicked while
\* parsing, or its read or write returned an error
Failed(conn) == conn.end \in {"panic", "io_error"}

\* C16, as stated: a parse failure or an I/O failure on one connection does
\* not end the accept loop, and two connections that sent the same bytes and
\* were answered got the same response, whatever happened to the others.
\* (A dispatch failure is answered like any request.)
C16_AsStated ==
    /\ (\E c \in DOMAIN conns : Failed(conns[c])) => phase \notin {"conn_error", "crashed"}
    /\ \A c, d \in DOMAIN conns :
          (conns[c].input = conns[d].input /\ conns[c].end = "ok" /\ conns[d].end = "ok")
              => conns[c].wrote = conns[d].wrote

(***************************************************************************)
(* Claims about the method Router::handle filters on (Spec).               *)
(***************************************************************************)
\* C17, as stated: the handler that Router::handle invokes, if any, was
\* bound with a method equal to the method of the request, whatever the
\* `method` argument of the call.
C17_AsStated ==
    op = "handle" =>
        \A k \in 1..Len(invoked) :
            \E j \in 1..Len(routes) :
                /\ routes[j].handler = invoked[k].handler
                /\ routes[j].method = request.method

(***************************************************************************)
(* Claims about the body of a parsed request (SpecParse).                  *)
(***************************************************************************)
\* the text after the first blank line that follows the request line; empty
\* when there is no such line
AfterBlankLine(text) ==
    LET lines == LinesOf(text)
        Blank == {i \in 2..Len(lines) : IsBlank(lines[i])}
    IN  IF Blank = {} THEN <<>>
        ELSE LET first == CHOOSE i \in Blank : \A j \in Blank : i <= j
             IN  Flatten(SubSeq(lines, first + 1, Len(lines)))

\* C20: the body of a parsed request is the text after the first blank
\* line, as it is, and absent when that text is empty or when the input ends
\* before a blank line; the body is never present and empty.  A blank line
\* is a line of white space only.
C20_BodyAfterBlankLine ==
    (op = "parse" /\ out.kind = "request") =>
        /\ out.request.body =
              IF AfterBlankLine(data) = <<>> THEN None ELSE Some(AfterBlankLine(data))
        /\ out.request.body # Some(<<>>)

\* C20 witness: the text after the first blank line is another line end and
\* BODY, and the parsed body is exactly that.
C20_Witness ==
    /\ op = "parse"
    /\ out.kind = "request"
    /\ AfterBlankLine(data) = <<"\r", "\n", "B", "O", "D", "Y">>
    /\ out.request.body = Some(<<"\r", "\n", "B", "O", "D", "Y">>)

====
